---------------------------- MODULE Spec2Model ----------------------------
(***************************************************************************)
(* A model of the DAX language extension's analysis engine:                *)
(*   - DaxDocumentParser (exclusion scanner, reference extractor, cache),  *)
(*   - SymbolTable,                                                        *)
(*   - the diagnostics rules (variables, scope, function arity),           *)
(*   - DaxSignatureHelpProvider (active parameter and displayed labels).   *)
(*                                                                         *)
(* A text is a sequence of one-character strings.  Offsets are 0-based as  *)
(* in the source: the character at offset i of t is t[i+1].  A Position is *)
(* <<line, character>>, a Range is [start |-> Position, end |-> Position]. *)
(***************************************************************************)
EXTENDS Integers, Sequences, FiniteSets, TLC

VARIABLES
  docs,           \* the open documents: uri -> [version, text]
  cachedUri,      \* DaxDocumentParser.cachedUri (None when undefined)
  cachedVersion,  \* DaxDocumentParser.cachedVersion (None when undefined)
  cachedResult,   \* DaxDocumentParser.cachedResult (None when undefined)
  symbolTable,    \* DaxDocumentParser.symbolTable
  nextId,         \* allocation counter: the identity of result objects
  lastCall,       \* the last call of parse() or of a method of the symbol table:
                  \* its arguments, what it returned and the state before it
  sigText,        \* the text before the cursor, for signature help
  sigHelp,        \* what provideSignatureHelp returned for sigText
  cache,          \* DaxCompletionProvider.cache: uri -> the cached parse, if any
  parseTimeout    \* DaxCompletionProvider.parseTimeout: the uri the pending
                  \* timer will invalidate (None when no timer is pending)

vars == <<docs, cachedUri, cachedVersion, cachedResult, symbolTable, nextId,
          lastCall, sigText, sigHelp, cache, parseTimeout>>

\* undefined, for the optional values of each type
None == "undefined"
NoString == <<>>
NoRange == [start |-> <<-1, -1>>, end |-> <<-1, -1>>]
NoId == 0

\* the bounds of the model
MaxScans == 2
MaxVersion == 2
MaxExclTokens == 3
MaxStrTokens == 4
MaxVarTokens == 3
MaxTabTokens == 4
MaxArgs == 4
MaxSigTokens == 7
MaxCallTokens == 6
MaxReferences == 4
MaxColumn == 8
MaxScopeTokens == 5
MaxDefineTokens == 4
MaxMeasureTokens == 3
MaxArgTokens == 4
MaxNameTokens == 4
MaxSymbols == 3
MaxCommentTokens == 4

-----------------------------------------------------------------------------
(* Characters and strings                                                  *)

QUOTE == "\""
BSLASH == "\\"
SQUOTE == "'"
NL == "\n"

UpperMap ==
  [a |-> "A", b |-> "B", c |-> "C", d |-> "D", e |-> "E", f |-> "F", g |-> "G",
   h |-> "H", i |-> "I", j |-> "J", k |-> "K", l |-> "L", m |-> "M", n |-> "N",
   o |-> "O", p |-> "P", q |-> "Q", r |-> "R", s |-> "S", t |-> "T", u |-> "U",
   v |-> "V", w |-> "W", x |-> "X", y |-> "Y", z |-> "Z"]

LowerLetters ==
  {"a", "b", "c", "d", "e", "f", "g", "h", "i", "j", "k", "l", "m",
   "n", "o", "p", "q", "r", "s", "t", "u", "v", "w", "x", "y", "z"}
UpperLetters ==
  {"A", "B", "C", "D", "E", "F", "G", "H", "I", "J", "K", "L", "M",
   "N", "O", "P", "Q", "R", "S", "T", "U", "V", "W", "X", "Y", "Z"}
Digits == {"0", "1", "2", "3", "4", "5", "6", "7", "8", "9"}
Letters == LowerLetters \cup UpperLetters
WordChars == Letters \cup Digits \cup {"_"}
IdentStartChars == Letters \cup {"_"}
SpaceChars == {" ", "\n", "\t"}

\* String.prototype.toUpperCase, one character
UpperChar(c) == IF c \in LowerLetters THEN UpperMap[c] ELSE c

\* String.prototype.toUpperCase
toUpperCase(s) == [k \in 1..Len(s) |-> UpperChar(s[k])]

\* regex classes: \w, \s, [A-Z_] and [A-Z0-9_.] under the i flag
IsWordChar(c) == c \in WordChars
IsSpace(c) == c \in SpaceChars
IsIdentStart(c) == c \in IdentStartChars
IsFnChar(c) == IsWordChar(c) \/ c = "."

\* Body applied to the value of v, which is computed once
Bind(v, Body(_)) == CHOOSE r \in {Body(x) : x \in {v}} : TRUE

\* text[i] of the source: the character at 0-based offset i, "" when out of range
Ch(t, i) == IF i >= 0 /\ i < Len(t) THEN t[i + 1] ELSE ""

\* text.substring(from, to) and text.slice(from, to) for 0 <= from: the end
\* is clamped to the length, and the result is empty when to <= from (the
\* code never calls substring with to < from)
Substring(t, from, to) ==
  LET e == IF to > Len(t) THEN Len(t) ELSE to
  IN IF e <= from THEN <<>> ELSE SubSeq(t, from + 1, e)

Min(S) == Bind(S, LAMBDA s : CHOOSE x \in s : \A y \in s : x <= y)
Max(S) == Bind(S, LAMBDA s : CHOOSE x \in s : \A y \in s : x >= y)

\* the first offset >= from whose character satisfies the test, Len(t) if none
FirstAt(t, from, Test(_)) ==
  Bind({k \in from..(Len(t) - 1) : Test(t[k + 1])},
       LAMBDA c : IF c = {} THEN Len(t) ELSE Min(c))

\* the end of the run of characters satisfying the test that starts at from
RunEnd(t, from, Test(_)) ==
  Bind({k \in from..(Len(t) - 1) : ~Test(t[k + 1])},
       LAMBDA c : IF c = {} THEN Len(t) ELSE Min(c))

\* String.prototype.indexOf(ch, from) for one character, -1 when absent
IndexOfChar(t, ch, from) ==
  Bind({k \in from..(Len(t) - 1) : t[k + 1] = ch},
       LAMBDA c : IF c = {} THEN -1 ELSE Min(c))

\* String.prototype.lastIndexOf(ch, from) for one character, -1 when absent
LastIndexOfChar(t, ch, from) ==
  Bind({k \in 0..(Len(t) - 1) : k <= from /\ t[k + 1] = ch},
       LAMBDA c : IF c = {} THEN -1 ELSE Max(c))

\* String.prototype.indexOf(s): the first offset where s occurs in t, -1 if none
IndexOfSeq(t, s) ==
  Bind({k \in 0..(Len(t) - Len(s)) : SubSeq(t, k + 1, k + Len(s)) = s},
       LAMBDA c : IF c = {} THEN -1 ELSE Min(c))

\* String.prototype.trim
trim(s) ==
  Bind({k \in 1..Len(s) : ~IsSpace(s[k])},
       LAMBDA keep : IF keep = {} THEN <<>> ELSE SubSeq(s, Min(keep), Max(keep)))

\* the regex assertion \b at offset i
WordBoundary(t, i) == IsWordChar(Ch(t, i - 1)) # IsWordChar(Ch(t, i))

\* the literal s occurs at offset i, compared case-insensitively (i flag)
LiteralAt(t, i, s) ==
  /\ i + Len(s) <= Len(t)
  /\ \A k \in 1..Len(s) : UpperChar(t[i + k]) = UpperChar(s[k])

\* The exec loop of a global regex: the leftmost match at or after lastIndex,
\* then on from the end of that match.  E[i] is the end offset of the match
\* that starts at i, -1 when the pattern does not match at i.
RECURSIVE Leftmost(_, _, _)
Leftmost(E, n, from) ==
  Bind({k \in from..(n - 1) : E[k] # -1},
       LAMBDA c : IF c = {} THEN <<>>
                  ELSE Bind(Min(c), LAMBDA k : <<[index |-> k, end |-> E[k]]>>
                                               \o Leftmost(E, n, E[k])))

\* the matches of a global regex on t in order, End(i) being the end of the
\* match that starts at offset i, or -1
Matches(t, End(_)) == Leftmost([i \in 0..(Len(t) - 1) |-> End(i)], Len(t), 0)

-----------------------------------------------------------------------------
(* vscode.TextDocument.positionAt, vscode.Position, vscode.Range           *)

\* document.positionAt(offset): the offset is clamped to the text; the line is
\* the number of line breaks before it, the character the distance from the
\* start of that line
positionAt(t, offset) ==
  LET o == IF offset < 0 THEN 0 ELSE IF offset > Len(t) THEN Len(t) ELSE offset
  IN Bind({k \in 0..(o - 1) : t[k + 1] = NL},
          LAMBDA brk : <<Cardinality(brk), IF brk = {} THEN o ELSE o - (Max(brk) + 1)>>)

PosLE(p, q) == p[1] < q[1] \/ (p[1] = q[1] /\ p[2] <= q[2])
PosLT(p, q) == p[1] < q[1] \/ (p[1] = q[1] /\ p[2] < q[2])

\* new vscode.Range(a, b): start is the smaller of the two positions
Range(a, b) ==
  Bind(<<a, b>>, LAMBDA ab : IF PosLE(ab[1], ab[2]) THEN [start |-> ab[1], end |-> ab[2]]
                             ELSE [start |-> ab[2], end |-> ab[1]])

\* Range.contains(position): both ends inclusive
RangeContains(r, p) == PosLE(r.start, p) /\ PosLE(p, r.end)

\* DaxDocumentParser.createRange
createRange(t, start, length) ==
  Range(positionAt(t, start), positionAt(t, start + length))

-----------------------------------------------------------------------------
(* Exclusion scanner                                                       *)

\* /(?:\/\/|--)[^\n]*/g at offset i
LineCommentEnd(t, i) ==
  IF (Ch(t, i) = "/" /\ Ch(t, i + 1) = "/") \/ (Ch(t, i) = "-" /\ Ch(t, i + 1) = "-")
  THEN LET IsNl(c) == c = NL IN FirstAt(t, i + 2, IsNl)
  ELSE -1

\* /\/\*[\s\S]*?\*\//g at offset i: the first "*/" at or after i + 2 closes it
BlockCommentEnd(t, i) ==
  IF Ch(t, i) = "/" /\ Ch(t, i + 1) = "*"
  THEN Bind({k \in (i + 2)..(Len(t) - 2) : t[k + 1] = "*" /\ t[k + 2] = "/"},
            LAMBDA c : IF c = {} THEN -1 ELSE Min(c) + 2)
  ELSE -1

\* (?:[^"\\]|\\.)* from offset k: a backslash takes the next character with it
\* (any character but a line break)
RECURSIVE StringBodyEnd(_, _)
StringBodyEnd(t, k) ==
  IF k >= Len(t) THEN k
  ELSE IF t[k + 1] = QUOTE THEN k
  ELSE IF t[k + 1] = BSLASH
       THEN IF k + 1 < Len(t) /\ t[k + 2] # NL THEN StringBodyEnd(t, k + 2) ELSE k
  ELSE StringBodyEnd(t, k + 1)

\* /"(?:[^"\\]|\\.)*"/g at offset i
StringEnd(t, i) ==
  IF Ch(t, i) = QUOTE
  THEN Bind(StringBodyEnd(t, i + 1),
            LAMBDA k : IF Ch(t, k) = QUOTE THEN k + 1 ELSE -1)
  ELSE -1

\* DaxDocumentParser.addMatches: the matches of one pattern as ExclusionRanges
addMatches(matches) ==
  Bind(matches, LAMBDA ms : [k \in 1..Len(ms) |-> [start |-> ms[k].index, end |-> ms[k].end]])

\* Array.prototype.sort((a, b) => a.start - b.start) (stable)
RECURSIVE SortByStart(_)
SortByStart(rs) ==
  IF Len(rs) = 0 THEN <<>>
  ELSE Bind(Min({k \in 1..Len(rs) : \A j \in 1..Len(rs) : rs[k].start <= rs[j].start}),
            LAMBDA at : <<rs[at]>> \o
                        SortByStart(SubSeq(rs, 1, at - 1) \o SubSeq(rs, at + 1, Len(rs))))

\* DaxDocumentParser.findExclusionRanges
findExclusionRanges(t) ==
  SortByStart(addMatches(Matches(t, LAMBDA i : LineCommentEnd(t, i)))
              \o addMatches(Matches(t, LAMBDA i : BlockCommentEnd(t, i)))
              \o addMatches(Matches(t, LAMBDA i : StringEnd(t, i))))

\* an exclusion test that looks only at where the span starts
isInExclusionRangeStartOnly(index, length, exclusionRanges) ==
  \E k \in 1..Len(exclusionRanges) :
    index >= exclusionRanges[k].start /\ index < exclusionRanges[k].end

\* DaxDocumentParser.isInExclusionRange
isInExclusionRange(index, length, exclusionRanges) ==
  \E k \in 1..Len(exclusionRanges) :
    index < exclusionRanges[k].end /\ index + length > exclusionRanges[k].start

\* DaxDocumentParser.getExclusionRanges: the ExclusionRanges as vscode Ranges
getExclusionRanges(t) ==
  Bind(findExclusionRanges(t),
       LAMBDA ex : [k \in 1..Len(ex) |->
                      Range(positionAt(t, ex[k].start), positionAt(t, ex[k].end))])

-----------------------------------------------------------------------------
(* SymbolTable.  Symbols are objects: heap[id] is the object with identity *)
(* id, and map is the Map<string, Symbol> in insertion order, each entry   *)
(* holding the identity of its value.  parent and children hold identities.*)

KindVariable == <<"v", "a", "r", "i", "a", "b", "l", "e">>
KindTable == <<"t", "a", "b", "l", "e">>
KindColumn == <<"c", "o", "l", "u", "m", "n">>
KindMeasure == <<"m", "e", "a", "s", "u", "r", "e">>

\* new SymbolTable()
EmptySymbolTable == [heap |-> <<>>, map |-> <<>>]

\* a Symbol literal as the parser builds it (no parent, no children yet)
NewSymbol(name, kind, declarationRange, referenceRanges, scope, tableContext, description) ==
  [name |-> name, kind |-> kind, declarationRange |-> declarationRange,
   referenceRanges |-> referenceRanges, scope |-> scope,
   tableContext |-> tableContext, description |-> description,
   parent |-> NoId, children |-> <<>>]

\* JavaScript truthiness of an optional string: undefined and "" are falsy
Truthy(s) == s # NoString

\* a key that leaves the owning table out
getKeyNameOnly(name, kind, tableContext) == kind \o <<":">> \o toUpperCase(name)

\* SymbolTable.getKey
getKey(name, kind, tableContext) ==
  IF kind = KindColumn /\ Truthy(tableContext)
  THEN kind \o <<":">> \o toUpperCase(tableContext) \o <<":">> \o toUpperCase(name)
  ELSE kind \o <<":">> \o toUpperCase(name)

\* Map.get: the identity stored under key, NoId when absent
MapGet(st, key) ==
  Bind(key, LAMBDA ky :
    Bind({k \in 1..Len(st.map) : st.map[k].key = ky},
         LAMBDA c : IF c = {} THEN NoId ELSE st.map[Min(c)].id))

\* Map.set: an existing key keeps its place in the insertion order
MapSet(st, key, id) ==
  Bind(key, LAMBDA ky :
    Bind({k \in 1..Len(st.map) : st.map[k].key = ky},
         LAMBDA c : IF c = {} THEN Append(st.map, [key |-> ky, id |-> id])
                    ELSE [st.map EXCEPT ![Min(c)] = [key |-> ky, id |-> id]]))

\* SymbolTable.hasSymbol
hasSymbol(st, name, kind, tableContext) ==
  MapGet(st, getKey(name, kind, tableContext)) # NoId

\* SymbolTable.getSymbol with a kind: the identity of the symbol, or NoId
getSymbol(st, name, kind, tableContext) ==
  MapGet(st, getKey(name, kind, tableContext))

\* Array.prototype.includes on a sequence
Includes(seq, x) == \E k \in 1..Len(seq) : seq[k] = x

\* SymbolTable.linkParentChild on the heap
linkParentChild(heap, parent, child) ==
  LET kids0 == heap[parent].children
      kids == IF Includes(kids0, child) THEN kids0 ELSE Append(kids0, child)
  IN [heap EXCEPT ![parent].children = kids, ![child].parent = parent]

\* a loop of addSymbol that compares the table names as they are written
RECURSIVE LinkColumnsCaseSensitive(_, _, _, _)
LinkColumnsCaseSensitive(heap, map, tableId, k) ==
  IF k > Len(map) THEN heap
  ELSE LET s == heap[map[k].id]
       IN IF /\ s.kind = KindColumn
             /\ s.tableContext # NoString
             /\ s.tableContext = heap[tableId].name
          THEN LinkColumnsCaseSensitive(linkParentChild(heap, tableId, map[k].id),
                                        map, tableId, k + 1)
          ELSE LinkColumnsCaseSensitive(heap, map, tableId, k + 1)

\* the loop of addSymbol over this.symbols.values() for a Table symbol
RECURSIVE LinkColumns(_, _, _, _)
LinkColumns(heap, map, tableId, k) ==
  IF k > Len(map) THEN heap
  ELSE LET s == heap[map[k].id]
       IN IF /\ s.kind = KindColumn
             /\ s.tableContext # NoString
             /\ toUpperCase(s.tableContext) = toUpperCase(heap[tableId].name)
          THEN LinkColumns(linkParentChild(heap, tableId, map[k].id), map, tableId, k + 1)
          ELSE LinkColumns(heap, map, tableId, k + 1)

\* SymbolTable.addSymbol
addSymbol(st, symbol) ==
  LET id == Len(st.heap) + 1
      key == getKey(symbol.name, symbol.kind, symbol.tableContext)
  IN Bind([heap |-> Append(st.heap, symbol), map |-> MapSet(st, key, id)], LAMBDA st1 :
       IF symbol.kind = KindColumn /\ Truthy(symbol.tableContext)
       THEN Bind(getSymbol(st1, symbol.tableContext, KindTable, NoString),
                 LAMBDA tableSymbol :
                   IF tableSymbol # NoId
                   THEN [st1 EXCEPT !.heap = linkParentChild(st1.heap, tableSymbol, id)]
                   ELSE st1)
       ELSE IF symbol.kind = KindTable
       THEN [st1 EXCEPT !.heap = LinkColumns(st1.heap, st1.map, id, 1)]
       ELSE st1)

\* an addReference that stores a new symbol when the key is not yet stored
addReferenceOrCreate(st, name, kind, range, tableContext) ==
  Bind(MapGet(st, getKey(name, kind, tableContext)),
       LAMBDA symbol : IF symbol # NoId
                       THEN [st EXCEPT !.heap[symbol].referenceRanges = Append(@, range)]
                       ELSE addSymbol(st, NewSymbol(name, kind, NoRange, <<range>>, NoRange,
                                                    tableContext, NoString)))

\* an addReference that records nothing
addReferenceDropped(st, name, kind, range, tableContext) == st

\* SymbolTable.addReference
addReference(st, name, kind, range, tableContext) ==
  Bind(MapGet(st, getKey(name, kind, tableContext)),
       LAMBDA symbol : IF symbol # NoId
                       THEN [st EXCEPT !.heap[symbol].referenceRanges = Append(@, range)]
                       ELSE st)

\* the test of getSymbolAtPosition on one symbol: its declaration range, when
\* it has one, or one of its reference ranges contains the position
SymbolContains(symbol, position) ==
  \/ symbol.declarationRange # NoRange /\ RangeContains(symbol.declarationRange, position)
  \/ \E k \in 1..Len(symbol.referenceRanges) :
        RangeContains(symbol.referenceRanges[k], position)

\* a lookup that tests the declaration range only
getSymbolAtPositionDeclarationOnly(st, position) ==
  Bind({k \in 1..Len(st.map) :
          /\ st.heap[st.map[k].id].declarationRange # NoRange
          /\ RangeContains(st.heap[st.map[k].id].declarationRange, position)},
       LAMBDA c : IF c = {} THEN NoId ELSE st.map[Min(c)].id)

\* SymbolTable.getSymbolAtPosition: the loop over this.symbols.values() from
\* entry k on; the identity of the symbol returned, NoId for undefined
RECURSIVE SymbolAtPositionFrom(_, _, _)
SymbolAtPositionFrom(st, position, k) ==
  IF k > Len(st.map) THEN NoId
  ELSE IF SymbolContains(st.heap[st.map[k].id], position) THEN st.map[k].id
  ELSE SymbolAtPositionFrom(st, position, k + 1)

getSymbolAtPosition(st, position) == SymbolAtPositionFrom(st, position, 1)

\* SymbolTable.clear: the map is emptied; the objects it held are unreachable
clear(st) == EmptySymbolTable

\* SymbolTable.getAllSymbols: the stored symbols in insertion order
getAllSymbols(st) == [k \in 1..Len(st.map) |-> st.heap[st.map[k].id]]

\* SymbolTable.getSymbolsByKind
getSymbolsByKind(st, kind) ==
  SelectSeq(getAllSymbols(st), LAMBDA s : s.kind = kind)

-----------------------------------------------------------------------------
(* General helpers of the parser                                           *)

\* DaxDocumentParser.isInsideBrackets
isInsideBrackets(t, index) ==
  LET lastOpen == LastIndexOfChar(t, "[", index)
      lastClose == LastIndexOfChar(t, "]", index)
  IN lastOpen > lastClose /\ lastOpen # -1

\* DaxDocumentParser.getNextNonWhitespace: the offset of the next character
\* that is not white space, -1 (null) when there is none
getNextNonWhitespace(t, startIndex) ==
  LET k == RunEnd(t, startIndex, IsSpace)
  IN IF k < Len(t) THEN k ELSE -1

\* DaxDocumentParser.createPositionKey: `${line}:${character}`
createPositionKey(position) == <<position[1], ":", position[2]>>

\* /\[\s*([^\]]+)\s*\]/ at offset i: the offset of the closing bracket, -1 when
\* the pattern does not match at i.  [^\]]+ runs to the first "]" and must
\* take at least one character.
BracketClose(t, i) ==
  IF Ch(t, i) = "["
  THEN LET j == IndexOfChar(t, "]", i + 1)
       IN IF j >= i + 2 THEN j ELSE -1
  ELSE -1

\* (?:'([^']+)'|([A-Z_][A-Z0-9_]*)) at offset q: the offset after the table
\* name, -1 when neither alternative matches at q
TableNameEnd(t, q) ==
  IF Ch(t, q) = SQUOTE
  THEN LET r == IndexOfChar(t, SQUOTE, q + 1)
       IN IF r >= q + 2 THEN r + 1 ELSE -1
  ELSE IF IsIdentStart(Ch(t, q)) THEN RunEnd(t, q, IsWordChar)
  ELSE -1

-----------------------------------------------------------------------------
(* Measures                                                                *)

\* /\[\s*([^\]]+)\s*\]\s*:=/g at offset i: the end of the match or -1
MeasureDef1End(t, i) ==
  Bind(BracketClose(t, i), LAMBDA j :
    IF j = -1 THEN -1
    ELSE Bind(RunEnd(t, j + 1, IsSpace), LAMBDA k :
           IF Ch(t, k) = ":" /\ Ch(t, k + 1) = "=" THEN k + 2 ELSE -1))

\* the offset of the "[" of MEASURE Table[, -1 when the head does not match at i
MeasureDef2Bracket(t, i) ==
  IF WordBoundary(t, i) /\ LiteralAt(t, i, <<"M", "E", "A", "S", "U", "R", "E">>)
  THEN Bind(RunEnd(t, i + 7, IsSpace), LAMBDA q :
         IF q = i + 7 THEN -1
         ELSE Bind(TableNameEnd(t, q), LAMBDA b :
                IF b # -1 /\ Ch(t, b) = "[" THEN b ELSE -1))
  ELSE -1

\* /\bMEASURE\s+(?:'([^']+)'|([A-Z_][A-Z0-9_]*))\[\s*([^\]]+)\s*\]\s*=/gi at i
MeasureDef2End(t, i) ==
  Bind(MeasureDef2Bracket(t, i), LAMBDA b :
    IF b = -1 THEN -1
    ELSE Bind(BracketClose(t, b), LAMBDA j :
           IF j = -1 THEN -1
           ELSE Bind(RunEnd(t, j + 1, IsSpace), LAMBDA k :
                  IF Ch(t, k) = "=" THEN k + 1 ELSE -1)))

\* /\[\s*([^\]]+)\s*\]/g at offset i
MeasureRefEnd(t, i) ==
  Bind(BracketClose(t, i), LAMBDA j : IF j = -1 THEN -1 ELSE j + 1)

\* the Map<string, MeasureInfo> is a sequence in insertion order
MeasureIndex(measures, name) ==
  Bind({k \in 1..Len(measures) : measures[k].name = name},
       LAMBDA c : IF c = {} THEN 0 ELSE Min(c))

\* DaxDocumentParser.parseMeasureDefinitions: the loop from match k on.
\* ms are the matches of the pattern in order; the peeked next match is
\* ms[k + 1], whether or not it is excluded.
RECURSIVE parseMeasureDefinitions(_, _, _, _, _, _)
parseMeasureDefinitions(t, exclusionRanges, measures, ms, isTableQualified, k) ==
  IF k > Len(ms) THEN measures
  ELSE
    LET m == ms[k]
        open == IF isTableQualified THEN MeasureDef2Bracket(t, m.index) ELSE m.index
        \* match.index + match[0].indexOf('[') + 1
        measureStartIndex == IndexOfChar(t, "[", m.index) + 1
        scopeEndIndex == IF k < Len(ms) THEN ms[k + 1].index ELSE Len(t)
        Info(measureName) ==
          Bind(createRange(t, measureStartIndex, Len(measureName)), LAMBDA measureRange :
            [name |-> measureName, declarationRange |-> measureRange,
             usageRanges |-> <<>>,
             scope |-> Range(measureRange.start, positionAt(t, scopeEndIndex))])
        Name(o) == trim(Substring(t, o + 1, BracketClose(t, o)))
        Set(measureName) ==
          IF \/ isInExclusionRange(m.index, m.end - m.index, exclusionRanges)
             \/ measureName = <<>>
             \/ MeasureIndex(measures, measureName) # 0
          THEN measures
          ELSE Append(measures, Info(measureName))
        Rest(next) == parseMeasureDefinitions(t, exclusionRanges, next, ms,
                                              isTableQualified, k + 1)
    IN Bind(Bind(Bind(open, Name), Set), Rest)

\* DaxDocumentParser.isPrecededByTableName
isPrecededByTableName(t, bracketIndex) ==
  Bind({k \in 0..(bracketIndex - 1) : ~IsSpace(t[k + 1])}, LAMBDA back :
    Bind(IF back = {} THEN -1 ELSE Max(back), LAMBDA pos :
      \/ pos >= 0 /\ Ch(t, pos) = SQUOTE
      \/ pos >= 0 /\ IsWordChar(Ch(t, pos)) /\ bracketIndex = pos + 1))

\* DaxDocumentParser.isFollowedByAssignment
isFollowedByAssignment(t, startIndex) ==
  Bind(getNextNonWhitespace(t, startIndex), LAMBDA next :
    IF next = -1 THEN FALSE
    ELSE IF Ch(t, next) = ":" THEN TRUE
    ELSE IF Ch(t, next) = "=" THEN next > 0 /\ Ch(t, next - 1) # ":"
    ELSE FALSE)

\* DaxDocumentParser.parseMeasureReferences: the loop from match k on
RECURSIVE parseMeasureReferences(_, _, _, _, _)
parseMeasureReferences(t, exclusionRanges, measures, ms, k) ==
  IF k > Len(ms) THEN measures
  ELSE
    LET m == ms[k]
        Use(measureName, at) ==
          Bind(createRange(t, m.index + 1, Len(measureName)), LAMBDA measureRange :
            IF at = 0
            THEN Append(measures, [name |-> measureName, declarationRange |-> NoRange,
                                   usageRanges |-> <<measureRange>>, scope |-> NoRange])
            ELSE [measures EXCEPT ![at].usageRanges = Append(@, measureRange)])
        Set(measureName) ==
          IF \/ isInExclusionRange(m.index, m.end - m.index, exclusionRanges)
             \/ measureName = <<>>
             \/ isPrecededByTableName(t, m.index)
             \/ isFollowedByAssignment(t, m.end)
          THEN measures
          ELSE Use(measureName, MeasureIndex(measures, measureName))
        Rest(next) == parseMeasureReferences(t, exclusionRanges, next, ms, k + 1)
    IN Bind(Bind(trim(Substring(t, m.index + 1, m.end - 1)), Set), Rest)

\* DaxDocumentParser.addMeasuresToSymbolTable: the loop from entry k on
RECURSIVE addMeasuresToSymbolTable(_, _, _)
addMeasuresToSymbolTable(st, measures, k) ==
  IF k > Len(measures) THEN st
  ELSE LET info == measures[k]
           Rest(next) == addMeasuresToSymbolTable(next, measures, k + 1)
       IN Bind(IF ~hasSymbol(st, info.name, KindMeasure, NoString)
               THEN addSymbol(st, NewSymbol(info.name, KindMeasure, info.declarationRange,
                                            info.usageRanges, info.scope, NoString,
                                            NoString))
               ELSE st, Rest)

\* DaxDocumentParser.parseMeasures: the measures and the symbol table after it
parseMeasures(t, exclusionRanges, st) ==
  LET Def1(ms) == parseMeasureDefinitions(t, exclusionRanges, <<>>, ms, FALSE, 1)
      Def2(m1) ==
        Bind(Matches(t, LAMBDA i : MeasureDef2End(t, i)),
             LAMBDA ms : parseMeasureDefinitions(t, exclusionRanges, m1, ms, TRUE, 1))
      Ref(m2) ==
        Bind(Matches(t, LAMBDA i : MeasureRefEnd(t, i)),
             LAMBDA ms : parseMeasureReferences(t, exclusionRanges, m2, ms, 1))
      Result(m3) == [measures |-> m3, symbolTable |-> addMeasuresToSymbolTable(st, m3, 1)]
  IN Bind(Bind(Bind(Bind(Matches(t, LAMBDA i : MeasureDef1End(t, i)), Def1), Def2), Ref),
          Result)

-----------------------------------------------------------------------------
(* Variables                                                               *)

KwVAR == <<"V", "A", "R">>
KwRETURN == <<"R", "E", "T", "U", "R", "N">>
KwDEFINE == <<"D", "E", "F", "I", "N", "E">>
KwEVALUATE == <<"E", "V", "A", "L", "U", "A", "T", "E">>

\* /\bKEYWORD\b/gi at offset i
KeywordEnd(t, i, kw) ==
  IF WordBoundary(t, i) /\ LiteralAt(t, i, kw) /\ WordBoundary(t, i + Len(kw))
  THEN i + Len(kw) ELSE -1

KeywordMatches(t, kw) == Matches(t, LAMBDA i : KeywordEnd(t, i, kw))

\* Array.prototype.sort((a, b) => a.index - b.index) (stable)
RECURSIVE SortByIndex(_)
SortByIndex(bs) ==
  IF Len(bs) = 0 THEN <<>>
  ELSE Bind(Min({k \in 1..Len(bs) : \A j \in 1..Len(bs) : bs[k].index <= bs[j].index}),
            LAMBDA at : <<bs[at]>> \o
                        SortByIndex(SubSeq(bs, 1, at - 1) \o SubSeq(bs, at + 1, Len(bs))))

\* DaxDocumentParser.addScopeBlocks: the blocks of one keyword
addScopeBlocks(t, exclusionRanges, kw, type) ==
  Bind(SelectSeq(KeywordMatches(t, kw),
                 LAMBDA m : ~isInExclusionRange(m.index, m.end - m.index, exclusionRanges)),
       LAMBDA ms : [k \in 1..Len(ms) |->
                      [type |-> type, index |-> ms[k].index,
                       position |-> positionAt(t, ms[k].index)]])

\* scope blocks of the parser that include DEFINE and EVALUATE
ParserFindScopeBlocksAll(t, exclusionRanges) ==
  SortByIndex(addScopeBlocks(t, exclusionRanges, KwVAR, "VAR")
              \o addScopeBlocks(t, exclusionRanges, KwRETURN, "RETURN")
              \o addScopeBlocks(t, exclusionRanges, KwDEFINE, "DEFINE")
              \o addScopeBlocks(t, exclusionRanges, KwEVALUATE, "EVALUATE"))

\* DaxDocumentParser.findScopeBlocks (the parser's own: VAR and RETURN)
ParserFindScopeBlocks(t, exclusionRanges) ==
  SortByIndex(addScopeBlocks(t, exclusionRanges, KwVAR, "VAR")
              \o addScopeBlocks(t, exclusionRanges, KwRETURN, "RETURN"))

\* /\bVAR\s+([A-Z_][A-Z0-9_]*)\s*=/gi at offset i: the offset where the
\* identifier starts, -1 when the head does not match at i
VarDeclName(t, i) ==
  IF WordBoundary(t, i) /\ LiteralAt(t, i, KwVAR)
  THEN Bind(RunEnd(t, i + 3, IsSpace),
            LAMBDA q : IF q > i + 3 /\ IsIdentStart(Ch(t, q)) THEN q ELSE -1)
  ELSE -1

VarDeclEnd(t, i) ==
  Bind(VarDeclName(t, i), LAMBDA q :
    IF q = -1 THEN -1
    ELSE Bind(RunEnd(t, RunEnd(t, q, IsWordChar), IsSpace),
              LAMBDA k : IF Ch(t, k) = "=" THEN k + 1 ELSE -1))

\* DaxDocumentParser.findParentMeasure: the name of the first measure whose
\* scope contains the position, NoString when there is none
findParentMeasure(measures, position) ==
  Bind({k \in 1..Len(measures) :
          measures[k].scope # NoRange /\ RangeContains(measures[k].scope, position)},
       LAMBDA c : IF c = {} THEN NoString ELSE measures[Min(c)].name)

\* the Map<string, VariableInfo> declaredVars holds the VariableInfo objects
\* of the variables array: an entry is [key, the index in variables]
DeclaredGet(declaredVars, key) ==
  Bind(key, LAMBDA ky :
    Bind({k \in 1..Len(declaredVars) : declaredVars[k].key = ky},
         LAMBDA c : IF c = {} THEN 0 ELSE declaredVars[Min(c)].at))

DeclaredSet(declaredVars, key, at) ==
  Bind(key, LAMBDA ky :
    Bind({k \in 1..Len(declaredVars) : declaredVars[k].key = ky},
         LAMBDA c : IF c = {} THEN Append(declaredVars, [key |-> ky, at |-> at])
                    ELSE [declaredVars EXCEPT ![Min(c)] = [key |-> ky, at |-> at]]))

\* DaxDocumentParser.parseVariableDeclarations: the loop from match k on;
\* acc holds variables, declaredVars and the symbol table
RECURSIVE parseVariableDeclarations(_, _, _, _, _, _, _)
parseVariableDeclarations(t, exclusionRanges, scopeBlocks, measures, ms, k, acc) ==
  IF k > Len(ms) THEN acc
  ELSE
    LET m == ms[k]
        Name(q) == Substring(t, q, RunEnd(t, q, IsWordChar))
        scopeEndIndex ==
          Bind({b \in 1..Len(scopeBlocks) : scopeBlocks[b].index > m.index},
               LAMBDA after : IF after = {} THEN Len(t) ELSE scopeBlocks[Min(after)].index)
        scopeRange == Range(positionAt(t, m.index), positionAt(t, scopeEndIndex))
        Declare(varName, declarationRange, parentMeasure) ==
          Bind(Append(acc.variables,
                      [name |-> varName, declarationLine |-> declarationRange.start[1],
                       declarationRange |-> declarationRange, usageRanges |-> <<>>,
                       parentMeasure |-> parentMeasure]),
               LAMBDA variables :
                 [variables |-> variables,
                  declaredVars |-> DeclaredSet(acc.declaredVars, toUpperCase(varName),
                                               Len(variables)),
                  symbolTable |->
                    addSymbol(acc.symbolTable,
                              NewSymbol(varName, KindVariable, declarationRange, <<>>,
                                        scopeRange, NoString, parentMeasure))])
        \* varStartIndex is match.index + match[0].indexOf(varName)
        Decl(varName) ==
          Bind(createRange(t, m.index + IndexOfSeq(Substring(t, m.index, m.end), varName),
                           Len(varName)),
               LAMBDA declarationRange :
                 Bind(findParentMeasure(measures, declarationRange.start),
                      LAMBDA parentMeasure : Declare(varName, declarationRange,
                                                     parentMeasure)))
        Set(varName) ==
          IF isInExclusionRange(m.index, m.end - m.index, exclusionRanges)
          THEN acc ELSE Decl(varName)
        Rest(next) == parseVariableDeclarations(t, exclusionRanges, scopeBlocks, measures,
                                                ms, k + 1, next)
    IN Bind(Bind(Bind(VarDeclName(t, m.index), Name), Set), Rest)

\* /\b([A-Z_][A-Z0-9_]*)\b/gi at offset i
IdentifierEnd(t, i) ==
  IF WordBoundary(t, i) /\ IsIdentStart(Ch(t, i)) THEN RunEnd(t, i, IsWordChar) ELSE -1

\* DaxDocumentParser.isPrecededByQuote
isPrecededByQuote(t, index) == index > 0 /\ Ch(t, index - 1) = SQUOTE

\* DaxDocumentParser.parseVariableUsages: the loop from match k on
RECURSIVE parseVariableUsages(_, _, _, _, _)
parseVariableUsages(t, exclusionRanges, ms, k, acc) ==
  IF k > Len(ms) THEN acc
  ELSE
    LET m == ms[k]
        identifier == Substring(t, m.index, m.end)
        IsFollowed(next) == next # -1 /\ Ch(t, next) \in {"=", "(", "["}
        Use(at, usageRange) ==
          IF usageRange.start = acc.variables[at].declarationRange.start
          THEN acc
          ELSE IF Bind(getNextNonWhitespace(t, m.index + Len(identifier)), IsFollowed)
          THEN acc
          ELSE [acc EXCEPT !.variables[at].usageRanges = Append(@, usageRange),
                           !.symbolTable = addReference(@, acc.variables[at].name,
                                                        KindVariable, usageRange,
                                                        NoString)]
        Set(at) ==
          IF \/ at = 0
             \/ isInExclusionRange(m.index, m.end - m.index, exclusionRanges)
             \/ isInsideBrackets(t, m.index)
             \/ isPrecededByQuote(t, m.index)
          THEN acc
          ELSE Bind(createRange(t, m.index, Len(identifier)),
                    LAMBDA usageRange : Use(at, usageRange))
        Rest(next) == parseVariableUsages(t, exclusionRanges, ms, k + 1, next)
    IN Bind(Bind(DeclaredGet(acc.declaredVars, toUpperCase(identifier)), Set), Rest)

\* DaxDocumentParser.parseVariables: the variables and the symbol table after it
parseVariables(t, exclusionRanges, measures, st) ==
  LET a0 == [variables |-> <<>>, declaredVars |-> <<>>, symbolTable |-> st]
      Declarations(scopeBlocks) ==
        Bind(Matches(t, LAMBDA i : VarDeclEnd(t, i)),
             LAMBDA decls : parseVariableDeclarations(t, exclusionRanges, scopeBlocks,
                                                      measures, decls, 1, a0))
      Usages(a1) ==
        Bind(Matches(t, LAMBDA i : IdentifierEnd(t, i)),
             LAMBDA idents : parseVariableUsages(t, exclusionRanges, idents, 1, a1))
      Result(a2) == [variables |-> a2.variables, symbolTable |-> a2.symbolTable]
  IN Bind(Bind(Bind(ParserFindScopeBlocks(t, exclusionRanges), Declarations), Usages),
          Result)

-----------------------------------------------------------------------------
(* Tables and columns                                                      *)

\* /(?:'([^']+)'|(\b[A-Z_][A-Z0-9_]*))\[\s*([^\]]+)\s*\]/gi at offset i: the
\* offset of the "[" after the table name, -1 when the head does not match
TableColBracket(t, i) ==
  Bind(IF Ch(t, i) = SQUOTE \/ WordBoundary(t, i) THEN TableNameEnd(t, i) ELSE -1,
       LAMBDA b : IF b # -1 /\ Ch(t, b) = "[" THEN b ELSE -1)

TableColEnd(t, i) ==
  Bind(TableColBracket(t, i), LAMBDA b :
    IF b = -1 THEN -1
    ELSE Bind(BracketClose(t, b), LAMBDA j : IF j = -1 THEN -1 ELSE j + 1))

\* a position set that holds the declarations only
createVariablePositionSetDeclarations(variables) ==
  {createPositionKey(variables[k].declarationRange.start) : k \in 1..Len(variables)}

\* DaxDocumentParser.createVariablePositionSet
createVariablePositionSet(variables) ==
  UNION {{createPositionKey(variables[k].declarationRange.start)}
         \cup {createPositionKey(variables[k].usageRanges[u].start) :
                 u \in 1..Len(variables[k].usageRanges)} : k \in 1..Len(variables)}

\* the Map<string, TableInfo> is a sequence in insertion order
TableIndex(tables, name) ==
  Bind({k \in 1..Len(tables) : tables[k].name = name},
       LAMBDA c : IF c = {} THEN 0 ELSE Min(c))

\* DaxDocumentParser.getOrCreateTableInfo: the map after it
getOrCreateTableInfo(tables, tableName, t, matchIndex, matchLength) ==
  IF TableIndex(tables, tableName) = 0
  THEN Append(tables, [name |-> tableName, usageRanges |-> <<>>, columns |-> {},
                       scope |-> createRange(t, matchIndex, matchLength)])
  ELSE tables

\* DaxDocumentParser.addColumnSymbol
addColumnSymbol(st, t, m, columnName, tableName) ==
  Bind(createRange(t, m.index + IndexOfSeq(Substring(t, m.index, m.end), columnName),
                   Len(columnName)),
       LAMBDA columnRange :
         IF ~hasSymbol(st, columnName, KindColumn, tableName)
         THEN addSymbol(st, NewSymbol(columnName, KindColumn, NoRange, <<columnRange>>,
                                      NoRange, tableName, NoString))
         ELSE addReference(st, columnName, KindColumn, columnRange, tableName))

\* DaxDocumentParser.parseTableColumnReferences: the loop from match k on;
\* acc holds tables, addedPositions and the symbol table
RECURSIVE parseTableColumnReferences(_, _, _, _, _)
parseTableColumnReferences(t, exclusionRanges, ms, k, acc) ==
  IF k > Len(ms) THEN acc
  ELSE
    LET m == ms[k]
        isQuoted == Ch(t, m.index) = SQUOTE
        tableStartIndex == m.index + (IF isQuoted THEN 1 ELSE 0)
        \* match[1] || match[2]
        RawTable(b) == IF isQuoted THEN Substring(t, m.index + 1, b - 1)
                       ELSE Substring(t, m.index, b)
        Tables(tables1, at, columnName, tableRange) ==
          [tables1 EXCEPT
             ![at].columns = @ \cup {columnName},
             ![at].usageRanges =
               IF createPositionKey(tableRange.start) \notin acc.addedPositions
               THEN Append(@, tableRange) ELSE @]
        Add(tableName, columnName, tableRange) ==
          Bind(getOrCreateTableInfo(acc.tables, tableName, t, m.index, m.end - m.index),
               LAMBDA tables1 :
                 [tables |-> Tables(tables1, TableIndex(tables1, tableName), columnName,
                                    tableRange),
                  addedPositions |->
                    acc.addedPositions \cup {createPositionKey(tableRange.start)},
                  symbolTable |-> addColumnSymbol(acc.symbolTable, t, m, columnName,
                                                  tableName)])
        Set(rawTable, tableName, columnName) ==
          IF \/ isInExclusionRange(m.index, m.end - m.index, exclusionRanges)
             \/ tableName = <<>>
             \/ columnName = <<>>
          THEN acc
          ELSE Bind(createRange(t, tableStartIndex, Len(rawTable)),
                    LAMBDA tableRange : Add(tableName, columnName, tableRange))
        Names(b) ==
          Bind(RawTable(b), LAMBDA rawTable :
            Bind(trim(rawTable), LAMBDA tableName :
              Bind(trim(Substring(t, b + 1, m.end - 1)),
                   LAMBDA columnName : Set(rawTable, tableName, columnName))))
        Rest(next) == parseTableColumnReferences(t, exclusionRanges, ms, k + 1, next)
    IN Bind(Bind(TableColBracket(t, m.index), Names), Rest)

\* new RegExp(`\\b${escapeRegex(tableName)}\\b`, 'gi') at offset i
StandaloneEnd(t, i, tableName) ==
  IF WordBoundary(t, i) /\ LiteralAt(t, i, tableName) /\ WordBoundary(t, i + Len(tableName))
  THEN i + Len(tableName) ELSE -1

\* the inner while loop of parseStandaloneTableReferences for table at, from
\* match k on
RECURSIVE StandaloneMatches(_, _, _, _, _, _, _)
StandaloneMatches(t, exclusionRanges, variablePositions, ms, k, at, acc) ==
  IF k > Len(ms) THEN acc
  ELSE
    LET m == ms[k]
        IsFollowed(next) == next # -1 /\ Ch(t, next) \in {"(", "="}
        Set(posKey) ==
          IF \/ isInExclusionRange(m.index, m.end - m.index, exclusionRanges)
             \/ isInsideBrackets(t, m.index)
             \/ posKey \in variablePositions
             \/ posKey \in acc.addedPositions
             \/ Bind(getNextNonWhitespace(t, m.end), IsFollowed)
          THEN acc
          ELSE [acc EXCEPT !.tables[at].usageRanges =
                             Append(@, createRange(t, m.index, m.end - m.index)),
                           !.addedPositions = @ \cup {posKey}]
        Rest(next) == StandaloneMatches(t, exclusionRanges, variablePositions, ms, k + 1,
                                        at, next)
    IN Bind(Bind(createPositionKey(positionAt(t, m.index)), Set), Rest)

\* DaxDocumentParser.parseStandaloneTableReferences: the loop from table at on
RECURSIVE parseStandaloneTableReferences(_, _, _, _, _)
parseStandaloneTableReferences(t, exclusionRanges, variablePositions, at, acc) ==
  IF at > Len(acc.tables) THEN acc
  ELSE
    LET tableName == acc.tables[at].name
        References(ms) ==
          StandaloneMatches(t, exclusionRanges, variablePositions, ms, 1, at, acc)
        Symbol(a1) ==
          IF ~hasSymbol(a1.symbolTable, tableName, KindTable, NoString)
          THEN [a1 EXCEPT !.symbolTable =
                  addSymbol(@, NewSymbol(tableName, KindTable, NoRange,
                                         a1.tables[at].usageRanges, a1.tables[at].scope,
                                         NoString, NoString))]
          ELSE a1
        Rest(next) == parseStandaloneTableReferences(t, exclusionRanges, variablePositions,
                                                     at + 1, next)
    IN Bind(Bind(Bind(Matches(t, LAMBDA i : StandaloneEnd(t, i, tableName)), References),
                 Symbol), Rest)

\* DaxDocumentParser.parseTableColumns: the tables and the symbol table after it
parseTableColumns(t, exclusionRanges, variables, st) ==
  LET a0 == [tables |-> <<>>, addedPositions |-> {}, symbolTable |-> st]
      References(ms) == parseTableColumnReferences(t, exclusionRanges, ms, 1, a0)
      Standalone(a1) ==
        Bind(createVariablePositionSet(variables),
             LAMBDA variablePositions :
               parseStandaloneTableReferences(t, exclusionRanges, variablePositions, 1, a1))
      Result(a2) == [tables |-> a2.tables, symbolTable |-> a2.symbolTable]
  IN Bind(Bind(Bind(Matches(t, LAMBDA i : TableColEnd(t, i)), References), Standalone),
          Result)

-----------------------------------------------------------------------------
(* The static catalogs (dax.functions.json, dax.parameters.json): read-only *)
(* input.  A few entries that cover the shapes the code distinguishes:     *)
(* required, optional, one repeating parameter, a repeating group.         *)

\* the parameter names of the entries, as character sequences
NmColumnName ==
  <<"C", "o", "l", "u", "m", "n", "N", "a", "m", "e">>
NmLogicalTest ==
  <<"L", "o", "g", "i", "c", "a", "l", "T", "e", "s", "t">>
NmResultIfTrue ==
  <<"R", "e", "s", "u", "l", "t", "I", "f", "T", "r", "u", "e">>
NmResultIfFalse ==
  <<"R", "e", "s", "u", "l", "t", "I", "f", "F", "a", "l", "s", "e">>
NmTable ==
  <<"T", "a", "b", "l", "e">>
NmNValue ==
  <<"N", "_", "V", "a", "l", "u", "e">>
NmOrderByExpression ==
  <<"O", "r", "d", "e", "r", "B", "y", "_", "E", "x", "p", "r", "e", "s", "s", "i", "o", "n">>
NmOrder ==
  <<"O", "r", "d", "e", "r">>

Param(name, isOptional, isRepeatable) ==
  [name |-> name, type |-> "any", isOptional |-> isOptional, isRepeatable |-> isRepeatable]

FnSUM == <<"S", "U", "M">>
FnIF == <<"I", "F">>
FnUNION == <<"U", "N", "I", "O", "N">>
FnTOPN == <<"T", "O", "P", "N">>
FnNOW == <<"N", "O", "W">>

\* dax.parameters.json: FunctionMetadata[]
daxParameters ==
  << [name |-> FnSUM, parameters |-> <<Param(NmColumnName, FALSE, FALSE)>>],
     [name |-> FnIF,
      parameters |-> <<Param(NmLogicalTest, FALSE, FALSE),
                       Param(NmResultIfTrue, FALSE, FALSE),
                       Param(NmResultIfFalse, TRUE, FALSE)>>],
     [name |-> FnUNION,
      parameters |-> <<Param(NmTable, FALSE, FALSE),
                       Param(NmTable, FALSE, TRUE)>>],
     [name |-> FnTOPN,
      parameters |-> <<Param(NmNValue, FALSE, FALSE),
                       Param(NmTable, FALSE, FALSE),
                       Param(NmOrderByExpression, TRUE, TRUE),
                       Param(NmOrder, TRUE, TRUE)>>] >>

\* dax.functions.json: the names of the known functions (NOW has no entry in
\* dax.parameters.json)
daxFunctions == {FnSUM, FnIF, FnUNION, FnTOPN, FnNOW}

\* daxParameters.find(fn => fn.name === name): its index, 0 when absent
FindMetadata(name) ==
  Bind({k \in 1..Len(daxParameters) : daxParameters[k].name = name},
       LAMBDA c : IF c = {} THEN 0 ELSE Min(c))

-----------------------------------------------------------------------------
(* Function calls                                                          *)

\* /\b([A-Z_][A-Z0-9_.]*)\s*\(/gi at offset i
FunctionCallEnd(t, i) ==
  IF WordBoundary(t, i) /\ IsIdentStart(Ch(t, i))
  THEN Bind(RunEnd(t, RunEnd(t, i, IsFnChar), IsSpace),
            LAMBDA k : IF Ch(t, k) = "(" THEN k + 1 ELSE -1)
  ELSE -1

\* DaxDocumentParser.findMatchingCloseParen: the while loop at index, depth
RECURSIVE CloseParenFrom(_, _, _, _)
CloseParenFrom(t, exclusionRanges, index, depth) ==
  IF index >= Len(t) THEN -1
  ELSE
    Bind({k \in 1..Len(exclusionRanges) :
            index >= exclusionRanges[k].start /\ index < exclusionRanges[k].end},
         LAMBDA c :
           IF c # {}
           THEN CloseParenFrom(t, exclusionRanges, exclusionRanges[Min(c)].end, depth)
           ELSE IF t[index + 1] = "("
           THEN CloseParenFrom(t, exclusionRanges, index + 1, depth + 1)
           ELSE IF t[index + 1] = ")"
           THEN IF depth - 1 = 0 THEN index
                ELSE CloseParenFrom(t, exclusionRanges, index + 1, depth - 1)
           ELSE CloseParenFrom(t, exclusionRanges, index + 1, depth))

findMatchingCloseParen(t, openIndex, exclusionRanges) ==
  CloseParenFrom(t, exclusionRanges, openIndex + 1, 1)

\* DaxDocumentParser.stripTableConstructors: the for loop at offset i
RECURSIVE StripFrom(_, _, _, _, _)
StripFrom(input, i, result, braceDepth, inString) ==
  IF i >= Len(input) THEN result
  ELSE
    LET char == input[i + 1]
        Step(inStr) ==
          IF ~inStr /\ char = "{"
          THEN <<i + 1, IF braceDepth + 1 = 1 THEN result \o <<"{", "}">> ELSE result,
                 braceDepth + 1, inStr>>
          ELSE IF ~inStr /\ char = "}"
          THEN <<i + 1, result, braceDepth - 1, inStr>>
          ELSE <<i + 1, IF braceDepth = 0 THEN Append(result, char) ELSE result,
                 braceDepth, inStr>>
        Rest(next) == StripFrom(input, next[1], next[2], next[3], next[4])
    IN Bind(IF char = QUOTE /\ inString /\ Ch(input, i + 1) = QUOTE
            THEN <<i + 2, result, braceDepth, inString>>
            ELSE Step(IF char = QUOTE THEN ~inString ELSE inString), Rest)

stripTableConstructors(input) == StripFrom(input, 0, <<>>, 0, FALSE)

\* the for loop of countParameters over sanitizedArgs from character k on
RECURSIVE CountCommas(_, _, _, _, _)
CountCommas(args, k, commaCount, parenDepth, inString) ==
  IF k > Len(args) THEN commaCount
  ELSE LET char == args[k]
           Rest(next) == CountCommas(args, k + 1, next[1], next[2], next[3])
       IN Bind(IF char = QUOTE THEN <<commaCount, parenDepth, ~inString>>
               ELSE IF inString THEN <<commaCount, parenDepth, inString>>
               ELSE IF char = "(" THEN <<commaCount, parenDepth + 1, inString>>
               ELSE IF char = ")" THEN <<commaCount, parenDepth - 1, inString>>
               ELSE IF char = "," /\ parenDepth = 0
               THEN <<commaCount + 1, parenDepth, inString>>
               ELSE <<commaCount, parenDepth, inString>>, Rest)

\* DaxDocumentParser.countParameters
countParameters(t, openParenIndex, closeParenIndex) ==
  LET rawArgs == Substring(t, openParenIndex + 1, closeParenIndex)
  IN Bind(trim(stripTableConstructors(rawArgs)),
          LAMBDA sanitizedArgs : IF Len(sanitizedArgs) = 0 THEN 0
                                 ELSE CountCommas(sanitizedArgs, 1, 0, 0, FALSE) + 1)

\* DaxDocumentParser.parseFunctionCalls: the loop from match k on
RECURSIVE FunctionCallsFrom(_, _, _, _, _)
FunctionCallsFrom(t, exclusionRanges, ms, k, functionCalls) ==
  IF k > Len(ms) THEN functionCalls
  ELSE
    LET m == ms[k]
        openParenIndex == m.end - 1
        Call(name, functionName, closeParenIndex) ==
          IF closeParenIndex = -1 THEN functionCalls
          ELSE Append(functionCalls,
                      [name |-> functionName,
                       parameterCount |-> countParameters(t, openParenIndex,
                                                          closeParenIndex),
                       range |-> createRange(t, m.index, Len(name))])
        Known(name, functionName) ==
          IF \/ functionName \notin daxFunctions
             \/ isInExclusionRange(m.index, m.end - m.index, exclusionRanges)
          THEN functionCalls
          ELSE Bind(findMatchingCloseParen(t, openParenIndex, exclusionRanges),
                    LAMBDA closeParenIndex : Call(name, functionName, closeParenIndex))
        Set(name) == Bind(toUpperCase(name),
                          LAMBDA functionName : Known(name, functionName))
        Rest(next) == FunctionCallsFrom(t, exclusionRanges, ms, k + 1, next)
    IN Bind(Bind(Substring(t, m.index, RunEnd(t, m.index, IsFnChar)), Set), Rest)

parseFunctionCalls(t, exclusionRanges) ==
  Bind(Matches(t, LAMBDA i : FunctionCallEnd(t, i)),
       LAMBDA ms : FunctionCallsFrom(t, exclusionRanges, ms, 1, <<>>))

-----------------------------------------------------------------------------
(* Diagnostics.  A Diagnostic is [range, severity, code, message]; the      *)
(* message is kept as the values the template string is built from.        *)

\* a runVariableDiagnostics that warns about every variable
runVariableDiagnosticsAll(variables) ==
  [k \in 1..Len(variables) |->
     [range |-> variables[k].declarationRange, severity |-> "warning",
      code |-> "unused-variable",
      message |-> [name |-> variables[k].name, limit |-> -1, provided |-> -1]]]

\* runVariableDiagnostics
runVariableDiagnostics(variables) ==
  Bind(SelectSeq(variables, LAMBDA v : Len(v.usageRanges) = 0),
       LAMBDA unused :
         [k \in 1..Len(unused) |->
            [range |-> unused[k].declarationRange, severity |-> "warning",
             code |-> "unused-variable",
             message |-> [name |-> unused[k].name, limit |-> -1, provided |-> -1]]])

\* findScopeBlocks.isExcluded
isExcluded(index, length, exclusionRanges) ==
  \E k \in 1..Len(exclusionRanges) :
    ~(index + length <= exclusionRanges[k].start \/ index >= exclusionRanges[k].end)

\* one of the four scans of findScopeBlocks
ScanScopeBlocks(t, exclusionRanges, kw, type) ==
  Bind(SelectSeq(KeywordMatches(t, kw),
                 LAMBDA m : ~isExcluded(m.index, m.end - m.index, exclusionRanges)),
       LAMBDA ms : [k \in 1..Len(ms) |->
                      [type |-> type, index |-> ms[k].index,
                       position |-> positionAt(t, ms[k].index)]])

\* findScopeBlocks of dax.diagnostics.scope: DEFINE, EVALUATE, VAR, RETURN
findScopeBlocks(t, exclusionRanges) ==
  SortByIndex(ScanScopeBlocks(t, exclusionRanges, KwDEFINE, "DEFINE")
              \o ScanScopeBlocks(t, exclusionRanges, KwEVALUATE, "EVALUATE")
              \o ScanScopeBlocks(t, exclusionRanges, KwVAR, "VAR")
              \o ScanScopeBlocks(t, exclusionRanges, KwRETURN, "RETURN"))

\* runScopeDiagnostics: the DEFINE/EVALUATE ranges
defineEvaluateRanges(scopeBlocks) ==
  LET defs == {k \in 1..Len(scopeBlocks) :
                 /\ scopeBlocks[k].type = "DEFINE"
                 /\ \E e \in (k + 1)..Len(scopeBlocks) : scopeBlocks[e].type = "EVALUATE"}
  IN {[start |-> scopeBlocks[k].index,
       end |-> scopeBlocks[Min({e \in (k + 1)..Len(scopeBlocks) :
                                  scopeBlocks[e].type = "EVALUATE"})].index] : k \in defs}

\* a test that finds no VAR inside a DEFINE block
isInDefineBlockNever(scopeBlocks, varIndex) == FALSE

\* runScopeDiagnostics.isInDefineBlock
isInDefineBlock(scopeBlocks, varIndex) ==
  \E r \in defineEvaluateRanges(scopeBlocks) : varIndex > r.start /\ varIndex < r.end

\* runScopeDiagnostics.getParenDepth
getParenDepth(t, startIndex, endIndex) ==
  Bind({k \in startIndex..(endIndex - 1) : k < Len(t)},
       LAMBDA span : Cardinality({k \in span : t[k + 1] = "("})
                     - Cardinality({k \in span : t[k + 1] = ")"}))

\* the while loop that pops the VARs at the same or a deeper nesting level
RECURSIVE PopVars(_, _)
PopVars(varStack, returnDepth) ==
  IF Len(varStack) > 0 /\ varStack[Len(varStack)].parenDepth >= returnDepth
  THEN PopVars(SubSeq(varStack, 1, Len(varStack) - 1), returnDepth)
  ELSE varStack

\* runScopeDiagnostics: the loop over the scope blocks from block k on
RECURSIVE VarStackFrom(_, _, _, _)
VarStackFrom(t, scopeBlocks, k, varStack) ==
  IF k > Len(scopeBlocks) THEN varStack
  ELSE LET block == scopeBlocks[k]
           Rest(next) == VarStackFrom(t, scopeBlocks, k + 1, next)
       IN Bind(IF block.type = "DEFINE" \/ block.type = "EVALUATE"
               THEN varStack
               ELSE IF block.type = "VAR"
               THEN Append(varStack, [block |-> block,
                                      parenDepth |-> getParenDepth(t, 0, block.index)])
               ELSE Bind(getParenDepth(t, 0, block.index),
                         LAMBDA returnDepth : PopVars(varStack, returnDepth)), Rest)

\* a translate that stays where it is
translateNowhere(position, lineDelta, characterDelta) == position

\* Position.translate(lineDelta, characterDelta)
translate(position, lineDelta, characterDelta) ==
  <<position[1] + lineDelta, position[2] + characterDelta>>

\* runScopeDiagnostics: is the VAR left on the stack flagged
MissingReturn(scopeBlocks, varBlock) ==
  /\ ~isInDefineBlock(scopeBlocks, varBlock.index)
  /\ LET indexInBlocks == Min({k \in 1..Len(scopeBlocks) :
                                 scopeBlocks[k].index = varBlock.index})
     IN ~\E k \in (indexInBlocks + 1)..Len(scopeBlocks) : scopeBlocks[k].type = "RETURN"

\* runScopeDiagnostics
runScopeDiagnostics(t, scopeBlocks) ==
  Bind(SelectSeq(VarStackFrom(t, scopeBlocks, 1, <<>>),
                 LAMBDA c : MissingReturn(scopeBlocks, c.block)),
       LAMBDA flagged :
         [k \in 1..Len(flagged) |->
            [range |-> Range(flagged[k].block.position,
                             translate(flagged[k].block.position, 0, 3)),
             severity |-> "error", code |-> "missing-return",
             message |-> [name |-> NoString, limit |-> -1, provided |-> -1]]])

\* bounds that take every parameter to be required
calculateParameterBoundsAllRequired(parameters) ==
  LET maxParams == Cardinality({k \in 1..Len(parameters) : ~parameters[k].isRepeatable})
      hasRepeatable == \E k \in 1..Len(parameters) : parameters[k].isRepeatable
  IN [minParams |-> Len(parameters), maxParams |-> IF hasRepeatable THEN -1 ELSE maxParams]

\* calculateParameterBounds: maxParams is -1 for null
calculateParameterBounds(parameters) ==
  LET minParams == Cardinality({k \in 1..Len(parameters) : ~parameters[k].isOptional})
      maxParams == Cardinality({k \in 1..Len(parameters) : ~parameters[k].isRepeatable})
      hasRepeatable == \E k \in 1..Len(parameters) : parameters[k].isRepeatable
  IN [minParams |-> minParams, maxParams |-> IF hasRepeatable THEN -1 ELSE maxParams]

\* runFunctionDiagnostics: the diagnostics of one call
CallDiagnostics(call) ==
  LET hasRepeatableParams(metadata) ==
        \E k \in 1..Len(metadata.parameters) : metadata.parameters[k].isRepeatable
      tooFew(bounds) ==
        IF call.parameterCount < bounds.minParams
        THEN <<[range |-> call.range, severity |-> "error",
                code |-> "too-few-parameters",
                message |-> [name |-> call.name, limit |-> bounds.minParams,
                             provided |-> call.parameterCount]]>>
        ELSE <<>>
      tooMany(metadata, bounds) ==
        IF /\ ~hasRepeatableParams(metadata)
           /\ bounds.maxParams # -1
           /\ call.parameterCount > bounds.maxParams
        THEN <<[range |-> call.range, severity |-> "error",
                code |-> "too-many-parameters",
                message |-> [name |-> call.name, limit |-> bounds.maxParams,
                             provided |-> call.parameterCount]]>>
        ELSE <<>>
      Check(metadata) ==
        Bind(calculateParameterBounds(metadata.parameters),
             LAMBDA bounds : tooFew(bounds) \o tooMany(metadata, bounds))
      Found(at) == IF at = 0 THEN <<>> ELSE Bind(daxParameters[at], Check)
  IN Bind(FindMetadata(call.name), Found)

\* runFunctionDiagnostics
RECURSIVE runFunctionDiagnostics(_)
runFunctionDiagnostics(functionCalls) ==
  IF Len(functionCalls) = 0 THEN <<>>
  ELSE CallDiagnostics(Head(functionCalls)) \o runFunctionDiagnostics(Tail(functionCalls))

\* runDiagnostics
runDiagnostics(t, result, scopeBlocks) ==
  runVariableDiagnostics(result.variables)
  \o runScopeDiagnostics(t, scopeBlocks)
  \o runFunctionDiagnostics(result.functionCalls)

-----------------------------------------------------------------------------
(* DaxDocumentParser.parse on a cache miss: everything after the cache test *)

\* the result object (a TableColumnMap) and the symbol table after the scan
Scan(st, t) ==
  Bind(findExclusionRanges(t), LAMBDA exclusionRanges :
    Bind(parseMeasures(t, exclusionRanges, clear(st)), LAMBDA pm :
      Bind(parseVariables(t, exclusionRanges, pm.measures, pm.symbolTable), LAMBDA pv :
        Bind(parseTableColumns(t, exclusionRanges, pv.variables, pv.symbolTable),
             LAMBDA pt :
          Bind([tables |-> pt.tables, measures |-> pm.measures,
                variables |-> pv.variables,
                exclusionRanges |-> getExclusionRanges(t),
                diagnostics |-> <<>>,
                functionCalls |-> parseFunctionCalls(t, exclusionRanges)],
               LAMBDA result :
            Bind(findScopeBlocks(t, exclusionRanges), LAMBDA scopeBlocks :
              [result |-> [result EXCEPT
                             !.diagnostics = runDiagnostics(t, result, scopeBlocks)],
               symbolTable |-> pt.symbolTable]))))))

-----------------------------------------------------------------------------
(* DaxSignatureHelpProvider                                                *)

DigitChars == <<"0", "1", "2", "3", "4", "5", "6", "7", "8", "9">>

\* the decimal digits of n >= 0, as a template string writes a number
RECURSIVE Decimal(_)
Decimal(n) ==
  IF n < 10 THEN <<DigitChars[n + 1]>>
  ELSE Decimal(n \div 10) \o <<DigitChars[(n % 10) + 1]>>

Ellipsis == <<".", ".", ".">>

\* beforeParen.match(/([A-Z_][A-Z0-9_.]*)\s*$/i): group 1 of the leftmost
\* match, NoString when there is none
NameBeforeParen(beforeParen) ==
  LET n == Len(beforeParen)
      From(i) == Substring(beforeParen, i, RunEnd(beforeParen, i, IsFnChar))
  IN Bind({i \in 0..(n - 1) :
             /\ IsIdentStart(Ch(beforeParen, i))
             /\ RunEnd(beforeParen, RunEnd(beforeParen, i, IsFnChar), IsSpace) = n},
          LAMBDA c : IF c = {} THEN NoString ELSE Bind(Min(c), From))

\* a backwards walk that stops at the first "(" it meets, whatever the depth
LastParenFrom(beforeCursor, i, depth) == LastIndexOfChar(beforeCursor, "(", i)

\* findActiveFunctionCall: the backwards walk from offset i with the depth
\* so far; the offset of the unclosed "(" or -1
RECURSIVE UnclosedParenFrom(_, _, _)
UnclosedParenFrom(beforeCursor, i, depth) ==
  IF i < 0 THEN -1
  ELSE IF Ch(beforeCursor, i) = ")" THEN UnclosedParenFrom(beforeCursor, i - 1, depth + 1)
  ELSE IF Ch(beforeCursor, i) = "("
  THEN IF depth = 0 THEN i ELSE UnclosedParenFrom(beforeCursor, i - 1, depth - 1)
  ELSE UnclosedParenFrom(beforeCursor, i - 1, depth)

\* DaxSignatureHelpProvider.findActiveFunctionCall
findActiveFunctionCall(beforeCursor) ==
  Bind(UnclosedParenFrom(beforeCursor, Len(beforeCursor) - 1, 0), LAMBDA i :
    Bind(IF i = -1 THEN NoString ELSE NameBeforeParen(Substring(beforeCursor, 0, i)),
         LAMBDA name : IF name # NoString
                       THEN [functionName |-> name, openParenIndex |-> i]
                       ELSE [functionName |-> NoString, openParenIndex |-> -1]))

\* DaxSignatureHelpProvider.getParameterIndex: the loop from character k on
RECURSIVE ParameterIndexFrom(_, _, _, _)
ParameterIndexFrom(afterOpenParen, k, commaCount, depth) ==
  IF k > Len(afterOpenParen) THEN commaCount
  ELSE IF afterOpenParen[k] = "("
  THEN ParameterIndexFrom(afterOpenParen, k + 1, commaCount, depth + 1)
  ELSE IF afterOpenParen[k] = ")"
  THEN ParameterIndexFrom(afterOpenParen, k + 1, commaCount, depth - 1)
  ELSE IF afterOpenParen[k] = "," /\ depth = 0
  THEN ParameterIndexFrom(afterOpenParen, k + 1, commaCount + 1, depth)
  ELSE ParameterIndexFrom(afterOpenParen, k + 1, commaCount, depth)

\* DaxSignatureHelpProvider.getParameterIndex
getParameterIndex(afterOpenParen) == ParameterIndexFrom(afterOpenParen, 1, 0, 0)

\* DaxSignatureHelpProvider.getRepeatableStartIndex (0-based, -1 when none)
getRepeatableStartIndex(params) ==
  Bind({i \in 0..(Len(params) - 1) : params[i + 1].isRepeatable},
       LAMBDA c : IF c = {} THEN -1 ELSE Min(c))

\* the locals of getActiveIndex and buildDisplayedParams
stride(params) == Len(params) - getRepeatableStartIndex(params)

\* an instance number that starts at 0
currentInstZeroBased(params, activeParamIndex) ==
  (activeParamIndex - getRepeatableStartIndex(params)) \div stride(params)

\* currentInst: the first instance of the repeating group is 1
currentInst(params, activeParamIndex) ==
  ((activeParamIndex - getRepeatableStartIndex(params)) \div stride(params)) + 1

\* an offset that is always that of the first parameter of the group
offsetNone(params, activeParamIndex) == 0

offset(params, activeParamIndex) ==
  (activeParamIndex - getRepeatableStartIndex(params)) % stride(params)

\* an active index that is the raw index of the argument
getActiveIndexRaw(params, activeParamIndex) == activeParamIndex

\* DaxSignatureHelpProvider.getActiveIndex
getActiveIndex(params, activeParamIndex) ==
  LET Repeated(repeatableStart, inst) ==
        IF stride(params) = 1
        THEN IF inst = 1 THEN activeParamIndex
             ELSE repeatableStart + 1 + (IF inst > 2 THEN 1 ELSE 0)
        ELSE IF inst = 1 THEN activeParamIndex
             ELSE repeatableStart + 1 + offset(params, activeParamIndex)
  IN Bind(getRepeatableStartIndex(params), LAMBDA repeatableStart :
       IF repeatableStart = -1 \/ activeParamIndex < repeatableStart
       THEN activeParamIndex
       ELSE Bind(currentInst(params, activeParamIndex),
                 LAMBDA inst : Repeated(repeatableStart, inst)))

\* the labels `${params[repeatableStart + i].name}${inst}` of one group
GroupLabels(params, inst) ==
  Bind(getRepeatableStartIndex(params), LAMBDA repeatableStart :
    [i \in 1..(Len(params) - repeatableStart) |->
       params[repeatableStart + i].name \o Decimal(inst)])

\* DaxSignatureHelpProvider.buildDisplayedParams
buildDisplayedParams(params, activeParamIndex) ==
  LET Repeated(repeatableStart, inst) ==
        IF stride(params) = 1
        THEN <<params[repeatableStart + 1].name \o Decimal(1)>>
             \o (IF inst > 2 THEN <<Ellipsis>> ELSE <<>>)
             \o (IF inst > 1 THEN <<params[repeatableStart + 1].name \o Decimal(inst)>>
                 ELSE <<>>)
        ELSE IF inst > 1 THEN <<Ellipsis>> \o GroupLabels(params, inst)
             ELSE GroupLabels(params, 1)
      Displayed(repeatableStart) ==
        [i \in 1..(IF repeatableStart = -1 THEN Len(params) ELSE repeatableStart) |->
           params[i].name]
        \o (IF repeatableStart = -1 THEN <<>>
            ELSE IF activeParamIndex < repeatableStart THEN GroupLabels(params, 1)
            ELSE Bind(currentInst(params, activeParamIndex),
                      LAMBDA inst : Repeated(repeatableStart, inst)))
  IN IF Len(params) = 0 THEN <<>>
     ELSE Bind(getRepeatableStartIndex(params), Displayed)

\* DaxSignatureHelpProvider.getSourceParam (displayedIndex is 0-based)
getSourceParam(params, displayedIndex) ==
  Bind(getRepeatableStartIndex(params), LAMBDA repeatableStart :
    IF displayedIndex < Len(params) THEN params[displayedIndex + 1]
    ELSE IF repeatableStart = -1 THEN params[Len(params)]
    ELSE params[repeatableStart
                + ((displayedIndex - repeatableStart) % (Len(params) - repeatableStart))
                + 1])

\* DaxSignatureHelpProvider.formatParamLabel
formatParamLabel(name, isOptional) ==
  IF isOptional THEN <<"[">> \o name \o <<"]">> ELSE name

\* buildSignature: the forEach over displayedParams from index on (0-based);
\* sig holds the label so far and the [startIndex, endIndex] of each parameter
RECURSIVE SignatureFrom(_, _, _, _)
SignatureFrom(params, displayedParams, index, sig) ==
  IF index >= Len(displayedParams) THEN sig
  ELSE
    LET sourceParam == getSourceParam(params, index)
        startIndex == Len(sig.label)
        \* the label after the parameter, which ends at endIndex, and its comma
        Push(label) ==
          [label |-> IF index < Len(displayedParams) - 1 THEN label \o <<",", " ">>
                     ELSE label,
           parameters |-> Append(sig.parameters, <<startIndex, Len(label)>>)]
        Rest(next) == SignatureFrom(params, displayedParams, index + 1, next)
    IN Bind(Bind(sig.label \o formatParamLabel(displayedParams[index + 1],
                                                sourceParam.isOptional), Push), Rest)

\* DaxSignatureHelpProvider.buildSignature: the label up to its closing
\* parenthesis (the " -> returns" tail comes from dax.functions.json) and the
\* label offsets of the parameters
buildSignature(fnName, params, activeParamIndex) ==
  Bind(buildDisplayedParams(params, activeParamIndex), LAMBDA displayedParams :
    [SignatureFrom(params, displayedParams, 0,
                   [label |-> fnName \o <<"(">>, parameters |-> <<>>])
       EXCEPT !.label = @ \o <<")">>])

\* provideSignatureHelp returned undefined
NoSignatureHelp ==
  [defined |-> FALSE, signatures |-> <<>>, activeSignature |-> -1, activeParameter |-> -1]

\* DaxSignatureHelpProvider.provideSignatureHelp for the cursor at offset
\* character of the line lineText
provideSignatureHelp(lineText, character) ==
  LET beforeCursor == Substring(lineText, 0, character)
      Params(at) == IF at = 0 THEN <<>> ELSE daxParameters[at].parameters
      Help(fnName, params, rawActiveIndex) ==
        [defined |-> TRUE,
         signatures |-> <<buildSignature(fnName, params, rawActiveIndex)>>,
         activeSignature |-> 0,
         activeParameter |-> getActiveIndex(params, rawActiveIndex)]
      Known(call, fnName) ==
        IF fnName \notin daxFunctions THEN NoSignatureHelp
        ELSE Bind(Bind(FindMetadata(fnName), Params), LAMBDA params :
               Bind(getParameterIndex(Substring(beforeCursor, call.openParenIndex + 1,
                                                Len(beforeCursor))),
                    LAMBDA rawActiveIndex : Help(fnName, params, rawActiveIndex)))
      Found(call) ==
        IF call.functionName = NoString \/ call.openParenIndex = -1 THEN NoSignatureHelp
        ELSE Bind(toUpperCase(call.functionName), LAMBDA fnName : Known(call, fnName))
  IN Bind(findActiveFunctionCall(beforeCursor), Found)

-----------------------------------------------------------------------------
(* The state machine: documents are edited, closed and reopened by the     *)
(* editor; the providers call parse() on the one shared parser.            *)

\* a cache test that forgets the version
CacheHitUriOnly(u, document) == cachedUri = u

\* the cache test of parse(): cachedUri?.toString() === document.uri.toString()
\* && cachedVersion === document.version
CacheHit(u, document) == cachedUri = u /\ cachedVersion = <<document.version>>

\* DaxDocumentParser.parse(document) for the open document u.  The returned
\* object and the state before the call are recorded in lastCall.
ParseDocument(u) ==
  LET document == docs[u]
      before == [cachedUri |-> cachedUri, cachedVersion |-> cachedVersion,
                 cachedResult |-> cachedResult, symbolTable |-> symbolTable]
  IN IF CacheHit(u, document)
     THEN /\ lastCall' = <<[uri |-> u, version |-> document.version,
                            text |-> document.text, returned |-> cachedResult[1],
                            before |-> before]>>
          /\ UNCHANGED <<docs, cachedUri, cachedVersion, cachedResult, symbolTable,
                         nextId, sigText, sigHelp>>
     ELSE /\ nextId <= MaxScans
          /\ \E sc \in {Scan(symbolTable, document.text)} :
             \E result \in {[id |-> nextId, value |-> sc.result]} :
                /\ symbolTable' = sc.symbolTable
                /\ cachedUri' = u
                /\ cachedVersion' = <<document.version>>
                /\ cachedResult' = <<result>>
                /\ lastCall' = <<[uri |-> u, version |-> document.version,
                                  text |-> document.text, returned |-> result,
                                  before |-> before]>>
          /\ nextId' = nextId + 1
          /\ UNCHANGED <<docs, sigText, sigHelp>>

\* a provider of the extension calls parse(document)
Parse(u) == ParseDocument(u) /\ UNCHANGED <<cache, parseTimeout>>

\* the state of a new DaxDocumentParser, with the given documents open
InitWith(d) ==
  /\ docs = d
  /\ cachedUri = None
  /\ cachedVersion = <<>>
  /\ cachedResult = <<>>
  /\ symbolTable = EmptySymbolTable
  /\ nextId = 1
  /\ lastCall = <<>>
  /\ sigText = <<>>
  /\ sigHelp = <<>>
  /\ cache = [u \in DOMAIN d |-> <<>>]
  /\ parseTimeout = None

ParseNext == \E u \in DOMAIN docs : Parse(u)

\* onDidChangeTextDocument: an edit replaces the text and the editor
\* increments the version of the document
Edit(u, text) ==
  /\ docs[u].version < MaxVersion
  /\ docs' = [docs EXCEPT ![u] = [version |-> docs[u].version + 1, text |-> text]]
  /\ UNCHANGED <<cachedUri, cachedVersion, cachedResult, symbolTable, nextId,
                 lastCall, sigText, sigHelp,
                 cache, parseTimeout>>

\* the document is closed and opened again: a new TextDocument of the same
\* uri, whose version starts again at 1, with the text now on disk
Reopen(u, text) ==
  /\ docs' = [docs EXCEPT ![u] = [version |-> 1, text |-> text]]
  /\ UNCHANGED <<cachedUri, cachedVersion, cachedResult, symbolTable, nextId,
                 lastCall, sigText, sigHelp,
                 cache, parseTimeout>>

\* the user types one more piece of the line before the cursor
Type(tk) ==
  /\ Len(sigText) < MaxSigTokens
  /\ sigText' = Append(sigText, tk)
  /\ sigHelp' = <<>>
  /\ UNCHANGED <<docs, cachedUri, cachedVersion, cachedResult, symbolTable, nextId,
                 lastCall,
                 cache, parseTimeout>>

\* the pieces typed so far, as the text of the line
RECURSIVE Concat(_)
Concat(pieces) ==
  IF Len(pieces) = 0 THEN <<>> ELSE Head(pieces) \o Concat(Tail(pieces))

\* the editor asks for signature help with the cursor at the end of the line
SignatureHelp ==
  /\ sigHelp = <<>>
  /\ \E lineText \in {Concat(sigText)} :
        sigHelp' = <<provideSignatureHelp(lineText, Len(lineText))>>
  /\ UNCHANGED <<docs, cachedUri, cachedVersion, cachedResult, symbolTable, nextId,
                 lastCall, sigText,
                 cache, parseTimeout>>

\* the number of reference ranges held by the first n objects of the heap
RECURSIVE ReferenceCount(_, _)
ReferenceCount(heap, n) ==
  IF n = 0 THEN 0 ELSE Len(heap[n].referenceRanges) + ReferenceCount(heap, n - 1)

\* a provider calls symbolTable.addReference on the parser's table; the
\* reference ranges held by the table are capped at MaxReferences
AddReference(name, kind, range, tableContext) ==
  /\ ReferenceCount(symbolTable.heap, Len(symbolTable.heap)) < MaxReferences
  /\ symbolTable' = addReference(symbolTable, name, kind, range, tableContext)
  /\ lastCall' = <<[op |-> "addReference", name |-> name, kind |-> kind, range |-> range,
                    tableContext |-> tableContext, before |-> symbolTable]>>
  /\ UNCHANGED <<docs, cachedUri, cachedVersion, cachedResult, nextId, sigText, sigHelp,
                 cache, parseTimeout>>

\* a provider calls symbolTable.getSymbolAtPosition(position)
GetSymbolAtPosition(position) ==
  /\ lastCall' = <<[op |-> "getSymbolAtPosition", position |-> position,
                    returned |-> getSymbolAtPosition(symbolTable, position),
                    before |-> symbolTable]>>
  /\ UNCHANGED <<docs, cachedUri, cachedVersion, cachedResult, symbolTable, nextId,
                 sigText, sigHelp,
                 cache, parseTimeout>>

\* symbolTable.clear() is called on the parser's table
Clear ==
  /\ symbolTable' = clear(symbolTable)
  /\ lastCall' = <<[op |-> "clear", before |-> symbolTable]>>
  /\ UNCHANGED <<docs, cachedUri, cachedVersion, cachedResult, nextId, sigText, sigHelp,
                 cache, parseTimeout>>

\* symbolTable.addSymbol(symbol) is called on the table; the objects ever
\* added since the last clear() are capped at MaxSymbols
AddSymbol(symbol) ==
  /\ Len(symbolTable.heap) < MaxSymbols
  /\ symbolTable' = addSymbol(symbolTable, symbol)
  /\ lastCall' = <<[op |-> "addSymbol", symbol |-> symbol, before |-> symbolTable]>>
  /\ UNCHANGED <<docs, cachedUri, cachedVersion, cachedResult, nextId, sigText, sigHelp,
                 cache, parseTimeout>>

\* DaxCompletionProvider.invalidateCache: this.cache.delete(uri.toString())
invalidateCache(c, u) == [c EXCEPT ![u] = <<>>]

\* the onDidChangeTextDocument listener of the completion provider, for an
\* edit of the DAX document u: the one pending timer is cleared and a new one
\* is set, whose callback holds the uri of this event
OnDidChangeTextDocument(u, text) ==
  /\ docs[u].version < MaxVersion
  /\ docs' = [docs EXCEPT ![u] = [version |-> docs[u].version + 1, text |-> text]]
  /\ parseTimeout' = u
  /\ UNCHANGED <<cachedUri, cachedVersion, cachedResult, symbolTable, nextId,
                 lastCall, sigText, sigHelp, cache>>

\* the callback of setTimeout runs, 300 ms after the timer was set
Timeout ==
  /\ parseTimeout # None
  /\ cache' = invalidateCache(cache, parseTimeout)
  /\ parseTimeout' = None
  /\ UNCHANGED <<docs, cachedUri, cachedVersion, cachedResult, symbolTable, nextId,
                 lastCall, sigText, sigHelp>>

\* the onDidCloseTextDocument listener of the completion provider (the
\* document is opened again as it was)
OnDidCloseTextDocument(u) ==
  /\ cache' = invalidateCache(cache, u)
  /\ UNCHANGED <<docs, cachedUri, cachedVersion, cachedResult, symbolTable, nextId,
                 lastCall, sigText, sigHelp, parseTimeout>>

\* DaxCompletionProvider.getParsedDocument(document), called by
\* provideCompletionItems for the open document u
GetParsedDocument(u) ==
  IF cache[u] # <<>>
  THEN UNCHANGED vars
  ELSE /\ ParseDocument(u)
       /\ cache' = [cache EXCEPT ![u] = <<lastCall'[1].returned>>]
       /\ UNCHANGED parseTimeout

\* one open document with the given text
OneDoc(text) == [u \in {"a.dax"} |-> [version |-> 1, text |-> text]]

\* all concatenations of at most n of the tokens
RECURSIVE TextsOf(_, _)
TextsOf(tokens, n) ==
  IF n = 0 THEN {<<>>}
  ELSE Bind(TextsOf(tokens, n - 1),
            LAMBDA shorter : shorter \cup {x \o tk : x \in shorter, tk \in tokens})

-----------------------------------------------------------------------------
(* Source texts: the pieces the documents of the model are made of          *)

\* "
TkQuote == <<QUOTE>>
\* \\
TkBackslash == <<BSLASH>>
\* /*
TkOpenComment == <<"/", "*">>
\* */
TkCloseComment == <<"*", "/">>
\* --
TkLineComment == <<"-", "-">>
\* a line break
TkNewline == <<NL>>
\* VAR x = T[c] 
TkVarTable == <<"V", "A", "R", " ", "x", " ", "=", " ", "T", "[", "c", "]", " ">>
\* SUM(x)
TkSumX == <<"S", "U", "M", "(", "x", ")">>
\* [m]
TkMeasureRef == <<"[", "m", "]">>
\* [m
TkMeasureOpen == <<"[", "m">>
\* ]
TkBracketClose == <<"]">>
\* x
TkX == <<"x">>
\*  
TkSpace == <<" ">>

\* T[c]
TkTableCol == <<"T", "[", "c", "]">>
\* VAR x = 1
TkVarX == <<"V", "A", "R", " ", "x", " ", "=", " ", "1">>
\*  VAR y = x
TkVarY == <<" ", "V", "A", "R", " ", "y", " ", "=", " ", "x">>
\*  RETURN 
TkReturn == <<" ", "R", "E", "T", "U", "R", "N", " ">>
\* 2
Tk2 == <<"2">>
\* (
TkOpenParen == <<"(">>
\* )
TkCloseParen == <<")">>
\* Sales
TkSales == <<"S", "a", "l", "e", "s">>
\* sales
TkSalesLower == <<"s", "a", "l", "e", "s">>
\* Orders
TkOrders == <<"O", "r", "d", "e", "r", "s">>
\* [Amount]
TkAmount == <<"[", "A", "m", "o", "u", "n", "t", "]">>
\* [Qty]
TkQty == <<"[", "Q", "t", "y", "]">>
\* TOPN(
TkTopnOpen == FnTOPN \o <<"(">>
\* x,
TkXComma == <<"x", ",">>

\* the texts of the documents of an editing session
SessionTexts == {TkMeasureRef, TkTableCol}

\* texts with comments and string literals, closed or not, around symbols
ExclTokens == {TkQuote, TkOpenComment, TkCloseComment, TkLineComment, TkNewline,
               TkVarTable, TkSumX, TkMeasureOpen, TkBracketClose}
ExclTexts == TextsOf(ExclTokens, MaxExclTokens)

\* texts with quotes and backslashes
StrTokens == {TkQuote, TkBackslash, TkX, TkSpace}
StrTexts == TextsOf(StrTokens, MaxStrTokens)

\* bodies of VAR declarations, RETURN, usages and parentheses
VarTokens == {TkVarX, TkVarY, TkReturn, TkX, Tk2, TkOpenParen, TkCloseParen}
VarTexts == TextsOf(VarTokens, MaxVarTokens)

\* table names in two spellings, with and without a bracketed column
TabTokens == {TkSales, TkSalesLower, TkOrders, TkAmount, TkQty, TkSpace}
TabTexts == TextsOf(TabTokens, MaxTabTokens)

\* n arguments separated by commas, the first one given
RECURSIVE ArgList(_, _)
ArgList(n, first) ==
  IF n = 0 THEN <<>>
  ELSE IF n = 1 THEN first
  ELSE ArgList(n - 1, first) \o <<",">> \o TkX

\* a call of a function with n arguments
CallOf(name, n, first) == name \o <<"(">> \o ArgList(n, first) \o <<")">>

\* one call, two calls side by side, and a call whose first argument is a call
FnTexts ==
  {CallOf(f, n, TkX) : f \in daxFunctions, n \in 0..MaxArgs}
  \cup {CallOf(f, n, TkX) \o TkSpace \o CallOf(g, m, TkX) :
          <<f, g>> \in daxFunctions \X daxFunctions, <<n, m>> \in (0..MaxArgs) \X (0..MaxArgs)}
  \cup {CallOf(f, n, CallOf(g, m, TkX)) :
          <<f, g>> \in daxFunctions \X daxFunctions, <<n, m>> \in (1..MaxArgs) \X (0..MaxArgs)}

\* what is typed before the cursor when signature help is asked for
SigTokens == {TkTopnOpen, TkXComma, TkX, TkCloseParen}

\* UNION(
TkUnionOpen == FnUNION \o <<"(">>

\* calls of a function with a repeatable group of one and of one with a
\* repeatable group of two, argument by argument
IndexTokens == {TkUnionOpen, TkTopnOpen, TkXComma}

\* {
TkOpenBrace == <<"{">>
\* }
TkCloseBrace == <<"}">>

\* a call of SUM whose argument text is made of arguments with their commas,
\* braces, quotes, parentheses and spaces
ArgTokens == {TkXComma, TkOpenBrace, TkCloseBrace, TkQuote, TkOpenParen, TkCloseParen,
              TkSpace}
ArgTexts == {FnSUM \o <<"(">> \o args \o <<")">> : args \in TextsOf(ArgTokens, MaxArgTokens)}

\* lines of names, spaces and parentheses, closed or not
CallTokens == {FnSUM, TkOpenParen, TkCloseParen, TkX, TkSpace}
RECURSIVE PiecesOf(_, _)
PiecesOf(tokens, n) ==
  IF n = 0 THEN {<<>>}
  ELSE Bind(PiecesOf(tokens, n - 1),
            LAMBDA shorter : shorter \cup {Append(x, tk) : x \in shorter, tk \in tokens})
CallLines == PiecesOf(CallTokens, MaxCallTokens)

\* DEFINE 
TkDefine == <<"D", "E", "F", "I", "N", "E", " ">>
\*  EVALUATE 
TkEvaluate == <<" ", "E", "V", "A", "L", "U", "A", "T", "E", " ">>

\* VAR declarations and RETURN inside and outside parentheses
ScopeTokens == {TkVarX, TkReturn, TkOpenParen, TkCloseParen}
ScopeTexts == TextsOf(ScopeTokens, MaxScopeTokens)

\* VAR declarations and RETURN around DEFINE and EVALUATE, quoted or not
DefineTokens == {TkDefine, TkEvaluate, TkVarX, TkReturn, TkQuote}
DefineTexts == TextsOf(DefineTokens, MaxDefineTokens)

\* [a] := 1 
TkDefA == <<"[", "a", "]", " ", ":", "=", " ", "1", " ">>
\* [c] := 3 
TkDefC == <<"[", "c", "]", " ", ":", "=", " ", "3", " ">>
\* MEASURE T[b] = 2 
TkDefB == <<"M", "E", "A", "S", "U", "R", "E", " ", "T", "[", "b", "]", " ", "=", " ",
            "2", " ">>

\* measure definitions of both forms with VAR declarations among them
MeasureTokens == {TkDefA, TkDefC, TkDefB, TkVarX}
MeasureTexts == TextsOf(MeasureTokens, MaxMeasureTokens)

\*  x
TkSpaceX == <<" ", "x">>
\*  x[c]
TkSpaceXCol == <<" ", "x", "[", "c", "]">>

\* a name that is declared and used as a variable and also qualifies a column
NameTokens == {TkVarX, TkReturn, TkSpaceX, TkSpaceXCol}
NameTexts == TextsOf(NameTokens, MaxNameTokens)

\* the symbols added to a table by hand: the tables T and U, and a column c
\* with no table, under T in two spellings and under U, and C under T
LinkRange == Range(<<0, 0>>, <<0, 1>>)
LinkTables == {<<"T">>, <<"U">>}
LinkContexts == {NoString, <<"T">>, <<"t">>, <<"U">>}
LinkSymbols ==
  {NewSymbol(name, KindTable, NoRange, <<LinkRange>>, NoRange, NoString, NoString) :
     name \in LinkTables}
  \cup {NewSymbol(<<"c">>, KindColumn, NoRange, <<LinkRange>>, NoRange, ctx, NoString) :
          ctx \in LinkContexts}
  \cup {NewSymbol(<<"C">>, KindColumn, NoRange, <<LinkRange>>, NoRange, <<"T">>, NoString)}

\* calls of SUM whose argument text holds commas and comments
CommentTokens == {TkX, TkXComma, TkOpenComment, TkCloseComment, TkLineComment, TkNewline}
CommentTexts ==
  {FnSUM \o <<"(">> \o args \o <<")">> : args \in TextsOf(CommentTokens, MaxCommentTokens)}

\* documents with a column, a measure and a variable, and the arguments of
\* the calls made on their symbol table
SymTexts == {<<>>, TkTableCol, TkMeasureRef, TkVarX \o TkReturn \o TkX,
             TkTableCol \o TkSpace \o TkMeasureRef}
SymNames == {<<"T">>, <<"t">>, <<"c">>, <<"m">>, TkX}
SymKinds == {KindVariable, KindTable, KindColumn, KindMeasure}
SymContexts == {NoString, <<"T">>, TkOrders}
SymRanges == {Range(<<0, 0>>, <<0, 1>>), Range(<<0, 5>>, <<0, 7>>)}
SymPositions == {<<0, c>> : c \in 0..MaxColumn} \cup {<<1, 0>>}

-----------------------------------------------------------------------------
(* Specifications                                                          *)

\* an editing session on two documents with one parser
Init ==
  \E ta \in SessionTexts, tb \in SessionTexts :
    InitWith([u \in {"a.dax", "b.dax"} |->
                [version |-> 1, text |-> IF u = "a.dax" THEN ta ELSE tb]])

Next ==
  \/ \E u \in DOMAIN docs : Parse(u)
  \/ \E u \in DOMAIN docs, text \in SessionTexts : Edit(u, text)
  \/ \E u \in DOMAIN docs, text \in SessionTexts : Reopen(u, text)

Spec == Init /\ [][Next]_vars

\* one document of comments, strings and symbols, parsed
InitExcl == \E text \in ExclTexts : InitWith(OneDoc(text))
SpecExcl == InitExcl /\ [][ParseNext]_vars

\* one document of quotes and backslashes, parsed
InitStr == \E text \in StrTexts : InitWith(OneDoc(text))
SpecStr == InitStr /\ [][ParseNext]_vars

\* one document of variable declarations and usages, parsed
InitVar == \E text \in VarTexts : InitWith(OneDoc(text))
SpecVar == InitVar /\ [][ParseNext]_vars

\* one document of table and column references, parsed
InitTab == \E text \in TabTexts : InitWith(OneDoc(text))
SpecTab == InitTab /\ [][ParseNext]_vars

\* one document of function calls, parsed
InitFn == \E text \in FnTexts : InitWith(OneDoc(text))
SpecFn == InitFn /\ [][ParseNext]_vars

\* a call typed piece by piece, signature help asked for at any point
InitSig == InitWith(OneDoc(<<>>))
NextSig ==
  \/ \E tk \in SigTokens : Type(tk)
  \/ SignatureHelp
SpecSig == InitSig /\ [][NextSig]_vars

\* calls of UNION and TOPN typed argument by argument, signature help asked
\* for at any point
NextIndex ==
  \/ \E tk \in IndexTokens : Type(tk)
  \/ SignatureHelp
SpecIndex == InitSig /\ [][NextIndex]_vars

\* a line of names and parentheses before the cursor, signature help asked for
InitCall ==
  /\ docs = OneDoc(<<>>)
  /\ cachedUri = None /\ cachedVersion = <<>> /\ cachedResult = <<>>
  /\ symbolTable = EmptySymbolTable /\ nextId = 1 /\ lastCall = <<>>
  /\ sigText \in CallLines
  /\ sigHelp = <<>>
  /\ cache = [u \in DOMAIN docs |-> <<>>]
  /\ parseTimeout = None
SpecCall == InitCall /\ [][SignatureHelp]_vars

\* one document of VAR and RETURN at several parenthesis depths, parsed
InitScope == \E text \in ScopeTexts : InitWith(OneDoc(text))
SpecScope == InitScope /\ [][ParseNext]_vars

\* one document of VAR and RETURN around DEFINE and EVALUATE, parsed
InitDefine == \E text \in DefineTexts : InitWith(OneDoc(text))
SpecDefine == InitDefine /\ [][ParseNext]_vars

\* one document of measure definitions and VAR declarations, parsed
InitMeasure == \E text \in MeasureTexts : InitWith(OneDoc(text))
SpecMeasure == InitMeasure /\ [][ParseNext]_vars

\* one document that is a call of SUM with some argument text, parsed
InitArg == \E text \in ArgTexts : InitWith(OneDoc(text))
SpecArg == InitArg /\ [][ParseNext]_vars

\* one document in which x is a variable and a table, parsed
InitName == \E text \in NameTexts : InitWith(OneDoc(text))
SpecName == InitName /\ [][ParseNext]_vars

\* a SymbolTable on which addSymbol, addReference and clear are called
NextLink ==
  \/ \E symbol \in LinkSymbols : AddSymbol(symbol)
  \/ \E name \in {<<"c">>, <<"T">>}, kind \in {KindColumn, KindTable},
        tableContext \in LinkContexts :
          AddReference(name, kind, Range(<<0, 5>>, <<0, 7>>), tableContext)
  \/ Clear
SpecLink == InitWith(OneDoc(<<>>)) /\ [][NextLink]_vars

\* one document, a call of SUM with comments between its parentheses
InitComment == \E text \in CommentTexts : InitWith(OneDoc(text))
SpecComment == InitComment /\ [][ParseNext]_vars

\* the completion provider with its own parser and cache: two documents are
\* edited and closed, completions are asked for, the debounce timer runs out
NextCompletion ==
  \/ \E u \in DOMAIN docs, text \in SessionTexts : OnDidChangeTextDocument(u, text)
  \/ Timeout
  \/ \E u \in DOMAIN docs : OnDidCloseTextDocument(u)
  \/ \E u \in DOMAIN docs : GetParsedDocument(u)
SpecCompletion == Init /\ [][NextCompletion]_vars

\* the same, where a timer that is set runs out unless it is cleared: the
\* event loop runs the callback of every timer that stays pending
SpecCompletionFair == SpecCompletion /\ WF_vars(Timeout)

\* one document parsed, and the calls of the providers on its symbol table
InitSym == \E text \in SymTexts : InitWith(OneDoc(text))
NextSym ==
  \/ ParseNext
  \/ \E name \in SymNames, kind \in SymKinds, range \in SymRanges,
        tableContext \in SymContexts : AddReference(name, kind, range, tableContext)
  \/ \E position \in SymPositions : GetSymbolAtPosition(position)
  \/ Clear
SpecSym == InitSym /\ [][NextSym]_vars

-----------------------------------------------------------------------------
(* Properties                                                              *)

\* the last parse() call, when there was one
Called == lastCall # <<>>
TheCall == lastCall[1]
\* the text, the result and the exclusion ranges of the last parse() call
CallText == TheCall.text
CallResult == TheCall.returned.value

\* the uri and version of the call are those the cache held before it
SameAsCached(c) ==
  c.before.cachedUri = c.uri /\ c.before.cachedVersion = <<c.version>>

\* C1: parse(document) returns the cached result object itself, with no
\* re-scan and the symbol table untouched, if and only if the uri and the
\* version of the document equal those stored by the last cache miss; the
\* text plays no part; otherwise the table is cleared and rebuilt and a new
\* result object is made from the text, and cached.
C1_CacheHitIffSameUriAndVersion ==
  Called =>
    LET c == TheCall
        b == c.before
        rescan == Scan(EmptySymbolTable, c.text)
    IN /\ SameAsCached(c) =>
            /\ c.returned = b.cachedResult[1]
            /\ symbolTable = b.symbolTable
            /\ cachedResult = b.cachedResult
       /\ ~SameAsCached(c) =>
            /\ b.cachedResult # <<>> => c.returned.id # b.cachedResult[1].id
            /\ c.returned.value = rescan.result
            /\ symbolTable = rescan.symbolTable
            /\ cachedUri = c.uri /\ cachedVersion = <<c.version>>
            /\ cachedResult = <<c.returned>>

\* a cache hit on a document whose text is not the text that was scanned:
\* same uri, same version, and the returned result is not that of its text
C1_Witness ==
  /\ Called
  /\ SameAsCached(TheCall)
  /\ TheCall.returned.value # Scan(EmptySymbolTable, TheCall.text).result

\* the elements of a sequence
Elems(seq) == {seq[k] : k \in 1..Len(seq)}

\* the symbols the table holds
Stored == Elems(getAllSymbols(symbolTable))

\* two ranges share a character
Overlaps(r, e) == PosLT(r.start, e.end) /\ PosLT(e.start, r.end)

\* the declaration and reference ranges of a set of symbols or infos
DeclRanges(S) == {x.declarationRange : x \in S} \ {NoRange}
RefRanges(S) == UNION {Elems(x.referenceRanges) : x \in S}
UsageRanges(S) == UNION {Elems(x.usageRanges) : x \in S}

\* every range the last parse() emitted for a symbol or a function call
EmittedRanges ==
  DeclRanges(Stored) \cup RefRanges(Stored)
  \cup DeclRanges(Elems(CallResult.variables)) \cup UsageRanges(Elems(CallResult.variables))
  \cup DeclRanges(Elems(CallResult.measures)) \cup UsageRanges(Elems(CallResult.measures))
  \cup UsageRanges(Elems(CallResult.tables))
  \cup {f.range : f \in Elems(CallResult.functionCalls)}

\* C2: after parse(), no declaration range or reference/usage range of an
\* emitted symbol (variable, table, column, measure) and no function-call
\* range overlaps an exclusion range (comment or string) of the text.
C2_NoEmittedRangeInExclusion ==
  Called =>
    \A r \in EmittedRanges, e \in Elems(CallResult.exclusionRanges) : ~Overlaps(r, e)

\* a parsed text with a comment or string that hides a call of SUM, while a
\* variable outside it is emitted
C2_Witness ==
  /\ Called
  /\ CallResult.exclusionRanges # <<>>
  /\ CallResult.variables # <<>>
  /\ IndexOfSeq(CallText, TkSumX) # -1
  /\ CallResult.functionCalls = <<>>

\* offset p of t is covered by an exclusion range of the last parse()
Covered(t, p) ==
  \E e \in Elems(CallResult.exclusionRanges) :
    PosLE(e.start, positionAt(t, p)) /\ PosLT(positionAt(t, p), e.end)

\* "/*" at offset p, outside every exclusion range, with no "*/" after it
UnterminatedComment(t, p) ==
  /\ Ch(t, p) = "/" /\ Ch(t, p + 1) = "*"
  /\ ~Covered(t, p)
  /\ ~\E k \in (p + 2)..(Len(t) - 2) : t[k + 1] = "*" /\ t[k + 2] = "/"

\* a double quote at offset p, outside every exclusion range, with no double
\* quote after it
UnterminatedString(t, p) ==
  /\ Ch(t, p) = QUOTE
  /\ ~Covered(t, p)
  /\ IndexOfChar(t, QUOTE, p + 1) = -1

\* C3: for a block-comment opener with no later "*/", or a double quote that
\* opens a string with no closing quote, there is an exclusion range from the
\* opener to the end of the text, so nothing is extracted after the opener.
C3_UnterminatedExcludedToEnd ==
  Called =>
    \A p \in 0..(Len(CallText) - 1) :
      (UnterminatedComment(CallText, p) \/ UnterminatedString(CallText, p)) =>
        /\ \E e \in Elems(CallResult.exclusionRanges) :
             /\ e.start = positionAt(CallText, p)
             /\ e.end = positionAt(CallText, Len(CallText))
        /\ \A r \in EmittedRanges : PosLE(r.end, positionAt(CallText, p))

\* the terminating quote of the literal whose body is scanned from offset k
\* under the doubled-quote convention (Len(t) if the literal never ends)
RECURSIVE DoubledQuoteEnd(_, _)
DoubledQuoteEnd(t, k) ==
  IF k >= Len(t) THEN Len(t)
  ELSE IF Ch(t, k) # QUOTE THEN DoubledQuoteEnd(t, k + 1)
  ELSE IF k + 1 < Len(t) /\ Ch(t, k + 1) = QUOTE THEN DoubledQuoteEnd(t, k + 2)
  ELSE k

\* the literals of t from offset k on under the doubled-quote convention, as
\* <<opening quote, terminating quote>> pairs
RECURSIVE DoubledQuoteLiterals(_, _)
DoubledQuoteLiterals(t, k) ==
  IF k >= Len(t) THEN {}
  ELSE IF Ch(t, k) # QUOTE THEN DoubledQuoteLiterals(t, k + 1)
  ELSE {<<k, DoubledQuoteEnd(t, k + 1)>>}
       \cup DoubledQuoteLiterals(t, DoubledQuoteEnd(t, k + 1) + 1)

\* C4: in a text without comments the string exclusion follows the doubled-
\* quote convention, a backslash having no escape meaning: every character
\* from the opening to the terminating quote of a literal is covered by the
\* exclusion ranges, and a character outside every literal is not covered.
C4_DoubledQuoteConvention ==
  Called =>
    LET t == CallText
        lits == DoubledQuoteLiterals(t, 0)
    IN /\ \A l \in lits : l[2] < Len(t) => \A p \in l[1]..l[2] : Covered(t, p)
       /\ \A p \in 0..(Len(t) - 1) :
            (\A l \in lits : p < l[1] \/ p > l[2]) => ~Covered(t, p)

\* the texts the claims name
TextVarReturnX == TkVarX \o TkReturn \o TkX
TextVarReturn2 == TkVarX \o TkReturn \o Tk2
TextSalesAmount == TkSales \o TkAmount
TextSumNoArgs == CallOf(FnSUM, 0, TkX)

\* the range from character a to character b of the first line
OnLine0(a, b) == [start |-> <<0, a>>, end |-> <<0, b>>]

\* the diagnostics of the last parse() with the given code
DiagnosticsOf(code) == SelectSeq(CallResult.diagnostics, LAMBDA d : d.code = code)

\* the stored symbols of a kind
StoredOf(kind) == {x \in Stored : x.kind = kind}

\* C5: the body `VAR x = 1 RETURN x` yields exactly one Variable symbol, x,
\* whose reference ranges are exactly one range, the x after RETURN, and the
\* diagnostics list of the result is empty.
C5_VarReturnX ==
  (Called /\ CallText = TextVarReturnX) =>
    /\ Cardinality(StoredOf(KindVariable)) = 1
    /\ \A v \in StoredOf(KindVariable) :
         /\ v.name = TkX
         /\ v.declarationRange = OnLine0(4, 5)
         /\ v.referenceRanges = <<OnLine0(17, 18)>>
    /\ Len(CallResult.variables) = 1
    /\ CallResult.variables[1].usageRanges = <<OnLine0(17, 18)>>
    /\ CallResult.diagnostics = <<>>

\* `VAR x = 1 RETURN x` has been parsed and x was given a reference
C5_Witness ==
  /\ Called
  /\ CallText = TextVarReturnX
  /\ \E v \in StoredOf(KindVariable) : Len(v.referenceRanges) = 1

\* C6 as stated: the body `VAR x = 1` yields exactly one missing-return error
\* whose range is the declaration range of x, the variable name.
C6_MissingReturnAtVariableName ==
  (Called /\ CallText = TkVarX) =>
    /\ Len(DiagnosticsOf("missing-return")) = 1
    /\ DiagnosticsOf("missing-return")[1].severity = "error"
    /\ DiagnosticsOf("missing-return")[1].range = CallResult.variables[1].declarationRange

\* C6: the body `VAR x = 1` yields exactly one missing-return error, and its
\* range is the three characters of the VAR keyword that opens the
\* declaration, not the declaration range of x; in every text a
\* missing-return diagnostic is an error on three characters that spell VAR,
\* and is the declaration range of no variable.
C6_MissingReturnAtVarKeyword ==
  Called =>
    /\ \A d \in Elems(DiagnosticsOf("missing-return")) :
         /\ d.severity = "error"
         /\ d.range.start[1] = 0 /\ d.range.end[1] = 0
         /\ d.range.end[2] = d.range.start[2] + 3
         /\ toUpperCase(Substring(CallText, d.range.start[2], d.range.end[2])) = KwVAR
         /\ \A v \in Elems(CallResult.variables) : d.range # v.declarationRange
    /\ CallText = TkVarX =>
         /\ Len(DiagnosticsOf("missing-return")) = 1
         /\ DiagnosticsOf("missing-return")[1].range = OnLine0(0, 3)
         /\ CallResult.variables[1].declarationRange = OnLine0(4, 5)

\* `VAR x = 1` has been parsed and a missing-return error was raised
C6_Witness ==
  /\ Called
  /\ CallText = TkVarX
  /\ Len(DiagnosticsOf("missing-return")) = 1

\* C7: the unused-variable warnings are, in order, one for each VariableInfo
\* with no usage range, ranged at its declaration, and there is none for a
\* variable with a usage; `VAR x = 1 RETURN 2` yields exactly one, for x.
C7_UnusedVariableWarnings ==
  Called =>
    LET warnings == DiagnosticsOf("unused-variable")
        unused == SelectSeq(CallResult.variables, LAMBDA v : Len(v.usageRanges) = 0)
    IN /\ Len(warnings) = Len(unused)
       /\ \A k \in 1..Len(warnings) :
            /\ warnings[k].severity = "warning"
            /\ warnings[k].range = unused[k].declarationRange
            /\ warnings[k].message.name = unused[k].name
       /\ \A v \in Elems(CallResult.variables) :
            Len(v.usageRanges) > 0 =>
              \A w \in Elems(warnings) : w.range # v.declarationRange
       /\ CallText = TextVarReturn2 =>
            /\ Len(warnings) = 1
            /\ warnings[1].message.name = TkX
            /\ warnings[1].range = OnLine0(4, 5)

\* a parsed text with a variable that is used and one that is not: only the
\* second is warned about
C7_Witness ==
  /\ Called
  /\ Len(DiagnosticsOf("unused-variable")) = 1
  /\ \E v \in Elems(CallResult.variables) : Len(v.usageRanges) > 0
  /\ \E v \in Elems(CallResult.variables) : Len(v.usageRanges) = 0

\* the identities of the stored symbols
StoredIds == {symbolTable.map[k].id : k \in 1..Len(symbolTable.map)}

\* how often x occurs in a sequence
Occurrences(seq, x) == Cardinality({k \in 1..Len(seq) : seq[k] = x})

\* the stored Table symbol p is the table of the context name ctx
IsTableOf(p, ctx) ==
  /\ p \in StoredIds
  /\ symbolTable.heap[p].kind = KindTable
  /\ toUpperCase(symbolTable.heap[p].name) = toUpperCase(ctx)

\* C8: after parse() every Column symbol with table context T has the Table
\* symbol T as its parent and is exactly once among the children of T, a
\* Table symbol has no other children, and every table the text references
\* has a Table symbol; `Sales[Amount]` yields the Table symbol Sales whose
\* only child is the Column Amount and whose only usage range is the table
\* name, without the bracketed part.
C8_ColumnsAreChildrenOfTheirTable ==
  Called =>
    LET heap == symbolTable.heap
    IN /\ \A c \in StoredIds :
            (heap[c].kind = KindColumn /\ heap[c].tableContext # NoString) =>
              /\ IsTableOf(heap[c].parent, heap[c].tableContext)
              /\ Occurrences(heap[heap[c].parent].children, c) = 1
              /\ \A q \in StoredIds \ {heap[c].parent} :
                   Occurrences(heap[q].children, c) = 0
       /\ \A p \in StoredIds : \A k \in 1..Len(heap[p].children) :
            /\ heap[p].kind = KindTable
            /\ heap[p].children[k] \in StoredIds
            /\ heap[heap[p].children[k]].kind = KindColumn
            /\ heap[heap[p].children[k]].parent = p
       /\ \A tb \in Elems(CallResult.tables) : \E p \in StoredIds : IsTableOf(p, tb.name)
       /\ CallText = TextSalesAmount =>
            /\ Cardinality(StoredOf(KindTable)) = 1
            /\ Cardinality(StoredOf(KindColumn)) = 1
            /\ \A tb \in StoredOf(KindTable) :
                 /\ tb.name = TkSales
                 /\ tb.referenceRanges = <<OnLine0(0, 5)>>
                 /\ Len(tb.children) = 1
                 /\ heap[tb.children[1]].name = <<"A", "m", "o", "u", "n", "t">>
                 /\ heap[tb.children[1]].tableContext = TkSales
            /\ Len(CallResult.tables) = 1
            /\ CallResult.tables[1].usageRanges = <<OnLine0(0, 5)>>

\* a parsed text where one Table symbol has two Column children, one of them
\* written with the table name in another case
C8_Witness ==
  /\ Called
  /\ \E p \in StoredIds :
       /\ symbolTable.heap[p].kind = KindTable
       /\ Len(symbolTable.heap[p].children) = 2
       /\ \E k \in 1..2 :
            symbolTable.heap[symbolTable.heap[p].children[k]].tableContext
              # symbolTable.heap[p].name

\* the entries of the parameter catalog for a function name
EntriesOf(name) == {e \in Elems(daxParameters) : e.name = name}
RequiredCount(e) == Cardinality({k \in 1..Len(e.parameters) : ~e.parameters[k].isOptional})
HasRepeatable(e) == \E k \in 1..Len(e.parameters) : e.parameters[k].isRepeatable

\* what the claim says must be flagged
MustBeTooFew(call) ==
  \E e \in EntriesOf(call.name) : call.parameterCount < RequiredCount(e)
MustBeTooMany(call) ==
  \E e \in EntriesOf(call.name) :
    ~HasRepeatable(e) /\ call.parameterCount > Len(e.parameters)

\* the call has a diagnostic of the code, at its range and with its count
Flagged(call, code) ==
  \E d \in Elems(DiagnosticsOf(code)) :
    /\ d.range = call.range
    /\ d.severity = "error"
    /\ d.message.name = call.name
    /\ d.message.provided = call.parameterCount

\* C9: a function call is flagged too-few-parameters exactly when the
\* function has a catalog entry and the call has fewer parameters than the
\* entry has non-optional ones, and too-many-parameters exactly when the entry
\* has no repeatable parameter and the call has more parameters than the
\* entry; there is no other arity diagnostic, so none for a function without
\* an entry; `SUM()` is flagged too-few-parameters with parameterCount 0.
C9_ArityDiagnostics ==
  Called =>
    LET calls == CallResult.functionCalls
    IN /\ \A c \in Elems(calls) :
            /\ Flagged(c, "too-few-parameters") <=> MustBeTooFew(c)
            /\ Flagged(c, "too-many-parameters") <=> MustBeTooMany(c)
       /\ Len(DiagnosticsOf("too-few-parameters"))
            = Cardinality({k \in 1..Len(calls) : MustBeTooFew(calls[k])})
       /\ Len(DiagnosticsOf("too-many-parameters"))
            = Cardinality({k \in 1..Len(calls) : MustBeTooMany(calls[k])})
       /\ CallText = TextSumNoArgs =>
            /\ Len(calls) = 1
            /\ calls[1].parameterCount = 0
            /\ Len(CallResult.diagnostics) = 1
            /\ CallResult.diagnostics[1].code = "too-few-parameters"
            /\ CallResult.diagnostics[1].message.provided = 0
            /\ CallResult.diagnostics[1].message.limit = 1

\* a parsed text with a call that has too few parameters and a call that has
\* too many, each flagged
C9_Witness ==
  /\ Called
  /\ Len(DiagnosticsOf("too-few-parameters")) = 1
  /\ Len(DiagnosticsOf("too-many-parameters")) = 1
  /\ Len(CallResult.functionCalls) = 2

\* the line typed so far
BeforeCursor == Concat(sigText)

\* signature help was asked for and given for the line typed so far
HelpGiven == sigHelp # <<>> /\ sigHelp[1].defined

\* the labels the signature displays: the parts of its label that the
\* parameters point at
DisplayedLabels ==
  LET sig == sigHelp[1].signatures[1]
  IN [k \in 1..Len(sig.parameters) |->
        Substring(sig.label, sig.parameters[k][1], sig.parameters[k][2])]

\* the catalog entry of TOPN: two static parameters, then a group of two
\* repeatable parameters that starts at index 2
TopnParams == daxParameters[FindMetadata(FnTOPN)].parameters

\* the line is TOPN( followed by six arguments separated by commas, the
\* cursor in the sixth: five commas, no parenthesis closed or opened
SixArguments ==
  /\ Len(sigText) >= 1
  /\ sigText[1] = TkTopnOpen
  /\ \A k \in 2..Len(sigText) : sigText[k] \in {TkXComma, TkX}
  /\ Cardinality({k \in 2..Len(sigText) : sigText[k] = TkXComma}) = 5

\* the instance and the offset the resolver computes for the line
Instance ==
  currentInst(TopnParams,
              getParameterIndex(Substring(BeforeCursor, Len(TkTopnOpen), Len(BeforeCursor))))
Offset ==
  offset(TopnParams,
         getParameterIndex(Substring(BeforeCursor, Len(TkTopnOpen), Len(BeforeCursor))))

\* the displayed label of an optional parameter
Bracketed(name) == <<"[">> \o name \o <<"]">>

\* C10 as stated: with the cursor in the sixth of six arguments the resolver
\* computes instance 3 and offset 0 and displays the static parameters, an
\* ellipsis and the labels of group 3.
C10_SixthArgumentIsInstance3 ==
  (HelpGiven /\ SixArguments) =>
    /\ Instance = 3
    /\ Offset = 0
    /\ DisplayedLabels = <<NmNValue, NmTable, Bracketed(Ellipsis),
                           Bracketed(NmOrderByExpression \o <<"3">>),
                           Bracketed(NmOrder \o <<"3">>)>>

\* C10: with the cursor in the sixth of six arguments (raw index 5) of a
\* function whose repeatable group of two starts at index 2, the resolver
\* computes instance 2 and offset 1; the displayed labels are the static
\* parameters, an ellipsis and the labels of group 2, five labels in all and
\* no sixth static one, and the active parameter is the second of the group.
C10_SixthArgumentIsInstance2 ==
  (HelpGiven /\ SixArguments) =>
    /\ getRepeatableStartIndex(TopnParams) = 2
    /\ stride(TopnParams) = 2
    /\ Instance = 2
    /\ Offset = 1
    /\ DisplayedLabels = <<NmNValue, NmTable, Bracketed(Ellipsis),
                           Bracketed(NmOrderByExpression \o <<"2">>),
                           Bracketed(NmOrder \o <<"2">>)>>
    /\ sigHelp[1].activeParameter = 4

\* TOPN(x,x,x,x,x,x has been typed and signature help given for it
C10_Witness ==
  /\ HelpGiven
  /\ SixArguments
  /\ BeforeCursor = TkTopnOpen \o TkXComma \o TkXComma \o TkXComma \o TkXComma
                    \o TkXComma \o TkX
  /\ Len(DisplayedLabels) = 5


\* the line before the cursor when signature help was asked for
HelpLine == Concat(sigText)

\* the "(" at offset i is closed by a ")" at or after offset k, depth being
\* the number of parentheses open at k
RECURSIVE ClosedFrom(_, _, _)
ClosedFrom(t, k, depth) ==
  IF k >= Len(t) THEN FALSE
  ELSE IF Ch(t, k) = "(" THEN ClosedFrom(t, k + 1, depth + 1)
  ELSE IF Ch(t, k) = ")" THEN depth = 1 \/ ClosedFrom(t, k + 1, depth - 1)
  ELSE ClosedFrom(t, k + 1, depth)

\* the offset of the last "(" of t with no matching ")" after it, -1 if none
NearestUnclosed(t) ==
  Bind({i \in 0..(Len(t) - 1) : Ch(t, i) = "(" /\ ~ClosedFrom(t, i + 1, 1)},
       LAMBDA c : IF c = {} THEN -1 ELSE Max(c))

\* the identifier that ends where the "(" at offset i starts, white space
\* between the two allowed: it starts at the first letter or underscore of
\* the run of name characters; NoString when there is none
PrecedingName(t, i) ==
  LET IsEnd(e) == e <= i /\ \A k \in e..(i - 1) : IsSpace(Ch(t, k))
      IsRun(b, e) == b < e /\ \A k \in b..(e - 1) : IsFnChar(Ch(t, k))
      Name(e) ==
        Bind({b \in 0..(e - 1) : IsRun(b, e) /\ IsIdentStart(Ch(t, b))},
             LAMBDA c : IF c = {} THEN NoString ELSE Substring(t, Min(c), e))
  IN Bind(Min({e \in 0..i : IsEnd(e)}), Name)

\* C11: findActiveFunctionCall selects the nearest "(" with no matching ")"
\* before the cursor and the identifier directly before it, whatever closed
\* calls lie between it and the cursor; signature help is given exactly when
\* there is such a "(" with an identifier that names a function of the
\* catalog, and otherwise the provider returns undefined (it never throws).
C11_ActiveCallIsNearestUnclosed ==
  sigHelp # <<>> =>
    LET i == NearestUnclosed(HelpLine)
        name == IF i = -1 THEN NoString ELSE PrecedingName(HelpLine, i)
    IN /\ findActiveFunctionCall(HelpLine) =
            IF name # NoString THEN [functionName |-> name, openParenIndex |-> i]
            ELSE [functionName |-> NoString, openParenIndex |-> -1]
       /\ sigHelp[1].defined <=> (name # NoString /\ toUpperCase(name) \in daxFunctions)
       /\ ~sigHelp[1].defined => sigHelp[1] = NoSignatureHelp

\* signature help was given for a call that has a closed call among its
\* arguments
C11_Witness ==
  /\ sigHelp # <<>>
  /\ sigHelp[1].defined
  /\ \E i \in 0..(Len(HelpLine) - 1) :
       /\ i > NearestUnclosed(HelpLine)
       /\ Ch(HelpLine, i) = "("
       /\ PrecedingName(HelpLine, i) = FnSUM
       /\ ClosedFrom(HelpLine, i + 1, 1)



\* the last call on the symbol table, when it was the given operation
SymCalled(op) ==
  lastCall # <<>> /\ "op" \in DOMAIN lastCall[1] /\ lastCall[1].op = op

\* C12: addReference on a key with no stored symbol leaves the symbol table
\* entirely unchanged; on a stored symbol it appends exactly the one range to
\* the reference ranges of that symbol and changes no other symbol.
C12_AddReferenceFrame ==
  SymCalled("addReference") =>
    LET c == lastCall[1]
        b == c.before
        stored == {k \in 1..Len(b.map) : b.map[k].key = getKey(c.name, c.kind, c.tableContext)}
    IN /\ symbolTable.map = b.map
       /\ Len(symbolTable.heap) = Len(b.heap)
       /\ stored = {} => symbolTable = b
       /\ \A k \in stored :
            \A id \in 1..Len(b.heap) :
               IF id = b.map[k].id
               THEN symbolTable.heap[id] =
                      [b.heap[id] EXCEPT !.referenceRanges = Append(@, c.range)]
               ELSE symbolTable.heap[id] = b.heap[id]

\* a reference added to one of two stored symbols, and a call on a key that
\* is not stored while symbols are
C12_Witness ==
  /\ SymCalled("addReference")
  /\ Len(lastCall[1].before.map) >= 2
  /\ symbolTable # lastCall[1].before

C12_WitnessNotStored ==
  /\ SymCalled("addReference")
  /\ Len(lastCall[1].before.map) >= 2
  /\ ~hasSymbol(lastCall[1].before, lastCall[1].name, lastCall[1].kind,
                lastCall[1].tableContext)


\* the stored symbols, in insertion order, with a range that contains p
Containing(st, p) ==
  {k \in 1..Len(st.map) :
     LET x == st.heap[st.map[k].id]
     IN \E r \in {x.declarationRange} \cup Elems(x.referenceRanges) :
          r # NoRange /\ PosLE(r.start, p) /\ PosLE(p, r.end)}

\* C13: getSymbolAtPosition(p) returns the first symbol in insertion order
\* that has a declaration or reference range containing p, and undefined
\* exactly when no stored symbol has one; after clear() it returns undefined
\* for every position.
C13_FirstSymbolContainingPosition ==
  /\ SymCalled("getSymbolAtPosition") =>
       LET c == lastCall[1]
           found == Containing(c.before, c.position)
       IN /\ (c.returned = NoId) <=> (found = {})
          /\ found # {} =>
               c.returned = c.before.map[CHOOSE k \in found : \A j \in found : k <= j].id
  /\ SymCalled("clear") =>
       \A p \in SymPositions : getSymbolAtPosition(symbolTable, p) = NoId

\* a position inside a range of two stored symbols, the first of which is
\* returned because of a reference range
C13_Witness ==
  /\ SymCalled("getSymbolAtPosition")
  /\ Cardinality(Containing(lastCall[1].before, lastCall[1].position)) >= 2
  /\ lastCall[1].returned # NoId
  /\ ~RangeContains(lastCall[1].before.heap[lastCall[1].returned].declarationRange,
                    lastCall[1].position)

\* clear() called on a table that held symbols
C13_WitnessCleared ==
  SymCalled("clear") /\ Len(lastCall[1].before.map) >= 1


\* the scope boundaries of the text of the last parse(), in text order
CallBlocks == findScopeBlocks(CallText, findExclusionRanges(CallText))

\* the number of "(" less the number of ")" before offset i of the text
DepthAt(t, i) ==
  Cardinality({k \in 1..i : k <= Len(t) /\ t[k] = "("})
  - Cardinality({k \in 1..i : k <= Len(t) /\ t[k] = ")"})

\* the offset lies strictly between a DEFINE and a following EVALUATE
BetweenDefineAndEvaluate(blocks, i) ==
  \E d \in 1..Len(blocks), e \in 1..Len(blocks) :
    /\ d < e
    /\ blocks[d].type = "DEFINE" /\ blocks[e].type = "EVALUATE"
    /\ blocks[d].index < i /\ i < blocks[e].index

\* a missing-return diagnostic is reported on the keyword of the block
ReportedAt(block) ==
  \E d \in Elems(DiagnosticsOf("missing-return")) : d.range.start = block.position

\* C14: missing-return is reported for a VAR outside every DEFINE...EVALUATE
\* block whenever no RETURN at a parenthesis depth equal to or shallower than
\* the depth of the VAR follows it; a later RETURN nested deeper than the VAR
\* does not suppress the error.
C14_DeeperReturnDoesNotSuppress ==
  Called =>
    Bind(CallBlocks, LAMBDA blocks :
      \A k \in 1..Len(blocks) :
        ( /\ blocks[k].type = "VAR"
          /\ ~BetweenDefineAndEvaluate(blocks, blocks[k].index)
          /\ ~\E j \in (k + 1)..Len(blocks) :
                /\ blocks[j].type = "RETURN"
                /\ DepthAt(CallText, blocks[j].index)
                     <= DepthAt(CallText, blocks[k].index) )
        => ReportedAt(blocks[k]))


\* the VAR stack of runScopeDiagnostics after the first k scope boundaries
\* have been processed
StackAfter(blocks, k) == VarStackFrom(CallText, SubSeq(blocks, 1, k), 1, <<>>)

\* C15: immediately after a RETURN at depth d has been processed, no VAR with
\* recorded depth >= d remains anywhere on the VAR stack, whatever the order
\* of the depths on the stack.
C15_NoDeeperVarRemainsAfterReturn ==
  Called =>
    Bind(CallBlocks, LAMBDA blocks :
      \A k \in 1..Len(blocks) :
        blocks[k].type = "RETURN" =>
          \A c \in Elems(StackAfter(blocks, k)) :
            c.parenDepth < DepthAt(CallText, blocks[k].index))


\* the offset lies strictly between a DEFINE and the first EVALUATE after it
InDefineBlock(blocks, i) ==
  \E d \in 1..Len(blocks), e \in 1..Len(blocks) :
    /\ d < e
    /\ blocks[d].type = "DEFINE" /\ blocks[e].type = "EVALUATE"
    /\ \A f \in (d + 1)..(e - 1) : blocks[f].type # "EVALUATE"
    /\ blocks[d].index < i /\ i < blocks[e].index

\* C16 as stated: no missing-return is ever reported for a VAR whose offset
\* lies strictly between a DEFINE and a following EVALUATE, both outside the
\* exclusion ranges, whether or not any RETURN exists.
C16_NoMissingReturnBeforeAnyEvaluate ==
  Called =>
    Bind(CallBlocks, LAMBDA blocks :
      \A k \in 1..Len(blocks) :
        ( /\ blocks[k].type = "VAR"
          /\ BetweenDefineAndEvaluate(blocks, blocks[k].index) )
        => ~ReportedAt(blocks[k]))

\* C16: no missing-return is ever reported for a VAR whose offset lies
\* strictly between a DEFINE and the first EVALUATE that follows it, both
\* outside the exclusion ranges, whether or not any RETURN exists; a VAR
\* after that first EVALUATE, in no such block, with no RETURN after it is
\* reported even when another EVALUATE follows.
C16_NoMissingReturnInDefineBlock ==
  Called =>
    Bind(CallBlocks, LAMBDA blocks :
      \A k \in 1..Len(blocks) :
        blocks[k].type = "VAR" =>
          /\ InDefineBlock(blocks, blocks[k].index) => ~ReportedAt(blocks[k])
          /\ ( /\ ~InDefineBlock(blocks, blocks[k].index)
               /\ \A j \in (k + 1)..Len(blocks) : blocks[j].type # "RETURN" )
             => ReportedAt(blocks[k]))

\* a VAR between a DEFINE and its EVALUATE, no RETURN anywhere, not reported
C16_Witness ==
  /\ Called
  /\ Bind(CallBlocks, LAMBDA blocks :
        /\ \E k \in 1..Len(blocks) :
             /\ blocks[k].type = "VAR"
             /\ InDefineBlock(blocks, blocks[k].index)
             /\ ~ReportedAt(blocks[k])
        /\ \A j \in 1..Len(blocks) : blocks[j].type # "RETURN")


\* the offsets after offset i of the boundaries of the given types
BoundariesAfter(blocks, i, types) ==
  {blocks[k].index : k \in {j \in 1..Len(blocks) :
                              blocks[j].type \in types /\ blocks[j].index > i}}

\* the scope of every stored Variable symbol starts at a VAR token and ends
\* at the nearest following boundary of the given types, or at end of text
VariableScopes(types) ==
  Bind(CallBlocks, LAMBDA blocks :
    \A x \in StoredOf(KindVariable) :
      /\ x.scope.start[1] = 0
      /\ toUpperCase(Substring(CallText, x.scope.start[2], x.scope.start[2] + 3)) = KwVAR
      /\ x.scope.start[2] < x.declarationRange.start[2]
      /\ x.scope.end = <<0, IF BoundariesAfter(blocks, x.scope.start[2], types) = {}
                            THEN Len(CallText)
                            ELSE Min(BoundariesAfter(blocks, x.scope.start[2], types))>>)

DefinitionStarts ==
  {i \in 0..(Len(CallText) - 1) :
     MeasureDef1End(CallText, i) # -1 \/ MeasureDef2End(CallText, i) # -1}

\* the measures of the result that have a definition
DefinedMeasures == {m \in Elems(CallResult.measures) : m.scope # NoRange}

\* the start of the definition the name at offset i belongs to
DefinitionOf(i) == Max({d \in DefinitionStarts : d < i})

\* C18: the scope of a measure definition runs to the start of the next
\* measure definition of any form (`[Name] :=` or `MEASURE Table[Name] =`), or
\* to end of text, so that the scopes of distinct measure definitions never
\* overlap and each VAR is attributed to the most closely preceding measure
\* definition.
C18_ScopeEndsAtNextDefinitionOfAnyForm ==
  Called =>
    /\ \A m \in DefinedMeasures :
         LET later == {d \in DefinitionStarts : d > m.declarationRange.start[2]}
         IN m.scope.end = <<0, IF later = {} THEN Len(CallText) ELSE Min(later)>>
    /\ \A m \in DefinedMeasures, n \in DefinedMeasures :
         m # n => ~Overlaps(m.scope, n.scope)
    /\ \A v \in Elems(CallResult.variables) :
         LET before == {d \in DefinitionStarts : d < v.declarationRange.start[2]}
         IN before # {} =>
              \E m \in DefinedMeasures :
                 /\ v.parentMeasure = m.name
                 /\ DefinitionOf(m.declarationRange.start[2]) = Max(before)


\* the last call opened on the line typed so far, and the number of commas
\* typed after its parenthesis: the raw index of the argument at the cursor
LastOpen == Max({k \in 1..Len(sigText) : sigText[k] \in {TkUnionOpen, TkTopnOpen}})
RawIndex == Cardinality({k \in (LastOpen + 1)..Len(sigText) : sigText[k] = TkXComma})

\* the catalog parameters of the last call opened
OpenParams ==
  IF sigText[LastOpen] = TkUnionOpen
  THEN daxParameters[FindMetadata(FnUNION)].parameters
  ELSE TopnParams

\* the start index s of the repeatable group of the call and its stride k
GroupStart == Min({i \in 0..(Len(OpenParams) - 1) : OpenParams[i + 1].isRepeatable})
GroupStride == Len(OpenParams) - GroupStart

\* C19: with repeatable-group start index s and stride k, the displayed
\* active index equals the raw index when the raw index is below s or in the
\* first instance; for k = 1 it is s + 1 in instance 2 and s + 2 in every
\* instance from 3 on; for k > 1 it is s + 1 + offset in every instance after
\* the first, where instance = floor((raw - s) / k) + 1 and
\* offset = (raw - s) mod k.
C19_DisplayedActiveIndex ==
  HelpGiven =>
    LET s == GroupStart
        k == GroupStride
        raw == RawIndex
        instance == ((raw - s) \div k) + 1
        off == (raw - s) % k
    IN sigHelp[1].activeParameter =
         IF raw < s \/ instance = 1 THEN raw
         ELSE IF k = 1 THEN (IF instance = 2 THEN s + 1 ELSE s + 2)
         ELSE s + 1 + off

\* UNION in its fourth instance, and TOPN in its second with offset 1
C19_Witness ==
  /\ HelpGiven
  /\ sigText[LastOpen] = TkUnionOpen
  /\ GroupStride = 1
  /\ RawIndex = GroupStart + 3
  /\ sigHelp[1].activeParameter = GroupStart + 2

C19_WitnessPairs ==
  /\ HelpGiven
  /\ sigText[LastOpen] = TkTopnOpen
  /\ GroupStride = 2
  /\ RawIndex = GroupStart + 3
  /\ sigHelp[1].activeParameter = GroupStart + 2


\* the call of SUM that opens the text of the last parse() was extracted
SumExtracted ==
  /\ Called
  /\ Len(CallResult.functionCalls) >= 1
  /\ CallResult.functionCalls[1].range.start = <<0, 0>>

\* the text between the parentheses of that call
ArgumentText ==
  Substring(CallText, Len(FnSUM) + 1,
            findMatchingCloseParen(CallText, Len(FnSUM), findExclusionRanges(CallText)))

\* character k of the text a lies inside a string literal: an odd number of
\* double quotes precedes it
InsideString(a, k) == Cardinality({j \in 1..(k - 1) : a[j] = QUOTE}) % 2 = 1

\* character k of a is a brace, a parenthesis or a comma outside the strings
Bare(a, k, ch) == a[k] = ch /\ ~InsideString(a, k)

\* the "{" at j and the "}" at e are a brace pair: as many "{" as "}" between
\* them, and never more "}" than "{" on the way
BracePair(a, j, e) ==
  /\ j < e /\ Bare(a, j, "{") /\ Bare(a, e, "}")
  /\ \A m \in (j + 1)..(e - 1) :
       Cardinality({i \in (j + 1)..m : Bare(a, i, "{")})
         >= Cardinality({i \in (j + 1)..m : Bare(a, i, "}")})
  /\ Cardinality({i \in (j + 1)..(e - 1) : Bare(a, i, "{")})
       = Cardinality({i \in (j + 1)..(e - 1) : Bare(a, i, "}")})

\* character k of a lies inside a brace pair, or is one of its braces
InsideBraces(a, k) ==
  \E j \in 1..k, e \in k..Len(a) : BracePair(a, j, e)

\* the parenthesis depth of the argument text before character k
ParenDepthAt(a, k) ==
  Cardinality({j \in 1..(k - 1) : Bare(a, j, "(") /\ ~InsideBraces(a, j)})
  - Cardinality({j \in 1..(k - 1) : Bare(a, j, ")") /\ ~InsideBraces(a, j)})

\* the commas at parenthesis depth 0, outside the strings and the brace pairs
TopLevelCommas(a) ==
  {k \in 1..Len(a) : /\ Bare(a, k, ",")
                     /\ ~InsideBraces(a, k)
                     /\ ParenDepthAt(a, k) = 0}

\* C20: the parameter count of an extracted call is 0 when the text between
\* its parentheses is empty or only whitespace, and otherwise is one plus the
\* number of commas at parenthesis depth 0 of the argument text, outside
\* every string literal and every table-constructor brace pair; commas nested
\* in inner calls, in strings or in table constructors never change the count.
C20_ParameterCount ==
  SumExtracted =>
    CallResult.functionCalls[1].parameterCount =
      IF \A k \in 1..Len(ArgumentText) : IsSpace(ArgumentText[k]) THEN 0
      ELSE 1 + Cardinality(TopLevelCommas(ArgumentText))


\* the declaration and usage ranges of the variables of the last parse()
VariableRanges ==
  UNION {{v.declarationRange} \cup Elems(v.usageRanges) : v \in Elems(CallResult.variables)}

\* the usage ranges of the tables of the last parse(), and the reference
\* ranges of the stored Table symbols
TableUsageRanges ==
  UNION {Elems(tb.usageRanges) : tb \in Elems(CallResult.tables)}
  \cup UNION {Elems(x.referenceRanges) : x \in StoredOf(KindTable)}

\* C21: a bare occurrence of a table name at the position of a declaration or
\* a usage of a variable is never registered as a table usage: after parse()
\* no range is both a table usage range and a declaration or usage range of a
\* variable.
C21_NoTableUsageAtVariablePosition ==
  Called => TableUsageRanges \cap VariableRanges = {}

\* x is a table, and a variable that is declared and used bare
C21_Witness ==
  /\ Called
  /\ \E tb \in Elems(CallResult.tables) : toUpperCase(tb.name) = <<"X">>
  /\ \E v \in Elems(CallResult.variables) :
        toUpperCase(v.name) = <<"X">> /\ Len(v.usageRanges) >= 1


\* the stored Column symbols of a table that have the name, under a table
\* other than the given one: their places in the map
SameNameOtherTable(st, name, tableContext) ==
  {k \in 1..Len(st.map) :
     LET y == st.heap[st.map[k].id]
     IN /\ y.kind = KindColumn
        /\ toUpperCase(y.name) = toUpperCase(name)
        /\ y.tableContext # NoString
        /\ toUpperCase(y.tableContext) # toUpperCase(tableContext)}

\* the call left the entry at place k of the map and its symbol as they were
Untouched(before, k) ==
  /\ k <= Len(symbolTable.map)
  /\ symbolTable.map[k] = before.map[k]
  /\ symbolTable.heap[before.map[k].id].referenceRanges
       = before.heap[before.map[k].id].referenceRanges
  /\ symbolTable.heap[before.map[k].id].declarationRange
       = before.heap[before.map[k].id].declarationRange
  /\ symbolTable.heap[before.map[k].id].parent = before.heap[before.map[k].id].parent

\* C22: Column symbols are keyed per owning table: adding columns with the
\* same name under two different tables stores two distinct symbols, and
\* neither addSymbol nor addReference on one of them changes the ranges, the
\* parent or the presence of the other.
C22_ColumnsKeyedPerTable ==
  /\ SymCalled("addSymbol") =>
       LET c == lastCall[1]
       IN (c.symbol.kind = KindColumn /\ c.symbol.tableContext # NoString) =>
            \A k \in SameNameOtherTable(c.before, c.symbol.name, c.symbol.tableContext) :
               /\ Untouched(c.before, k)
               /\ getSymbol(symbolTable, c.symbol.name, KindColumn, c.symbol.tableContext)
                    \notin {NoId, c.before.map[k].id}
  /\ SymCalled("addReference") =>
       LET c == lastCall[1]
       IN (c.kind = KindColumn /\ c.tableContext # NoString) =>
            \A k \in SameNameOtherTable(c.before, c.name, c.tableContext) :
               Untouched(c.before, k)

\* c was stored under T with T as its parent when c was added under U
C22_Witness ==
  /\ SymCalled("addSymbol")
  /\ lastCall[1].symbol.kind = KindColumn
  /\ lastCall[1].symbol.tableContext = <<"U">>
  /\ \E k \in SameNameOtherTable(lastCall[1].before, lastCall[1].symbol.name, <<"U">>) :
        lastCall[1].before.heap[lastCall[1].before.map[k].id].parent # NoId
  /\ Cardinality(SameNameOtherTable(symbolTable, <<"c">>, <<"Z">>)) >= 2


\* the symbols of a text: the stored symbols after a scan of it by a new parser
SymbolsOf(text) == Elems(getAllSymbols(Scan(EmptySymbolTable, text).symbolTable))

\* C23: after any sequence of parse() calls on the documents and versions of
\* a session, made by the providers that share the one parser, the symbol
\* table holds exactly the symbols of the document and version passed to the
\* most recent parse() call, never symbols left over from another document or
\* from an earlier version, also when that call was a cache hit.
C23_SymbolTableOfLastParsedDocument ==
  Called => Stored = SymbolsOf(CallText)


\* C24: after parse(), for every VariableInfo v of the result the symbol
\* table holds a Variable symbol whose declaration range equals the
\* declaration range of v and whose reference ranges equal the usage ranges
\* of v, also when the same variable name (compared case-insensitively) is
\* declared by more than one VAR in the text.
C24_EveryVariableHasItsSymbol ==
  Called =>
    \A v \in Elems(CallResult.variables) :
      \E x \in StoredOf(KindVariable) :
        /\ x.declarationRange = v.declarationRange
        /\ x.referenceRanges = v.usageRanges


\* C25: every bracketed token outside the exclusion ranges is classified as
\* exactly one of column reference or measure: after parse(), no range is at
\* the same time a reference range of a Column symbol and a declaration or
\* reference range of a Measure symbol, including for the definition forms
\* `MEASURE Table[Name] =` and `Table[Name] :=`.
C25_ColumnOrMeasureNeverBoth ==
  Called =>
    RefRanges(StoredOf(KindColumn))
      \cap (DeclRanges(StoredOf(KindMeasure)) \cup RefRanges(StoredOf(KindMeasure))) = {}


\* the identities of the stored symbols of a kind
StoredIdsOf(kind) ==
  StoredIds \cap {id \in 1..Len(symbolTable.heap) : symbolTable.heap[id].kind = kind}

\* C26: after any sequence of addSymbol, addReference and clear calls the
\* parent/child links are consistent with the stored symbols: every entry in
\* the children of a stored Table symbol is the Column symbol currently stored
\* under its key and has that Table as parent, and every stored Column symbol
\* whose table is stored has that stored Table symbol as its parent; no link
\* to a symbol replaced by addSymbol remains.
C26_LinksConsistentWithStoredSymbols ==
  /\ \A tb \in StoredIdsOf(KindTable) :
       \A k \in 1..Len(symbolTable.heap[tb].children) :
         LET child == symbolTable.heap[tb].children[k]
         IN /\ child \in StoredIdsOf(KindColumn)
            /\ symbolTable.heap[child].parent = tb
  /\ \A col \in StoredIdsOf(KindColumn) :
       LET ctx == symbolTable.heap[col].tableContext
       IN (Truthy(ctx) /\ hasSymbol(symbolTable, ctx, KindTable, NoString))
            => symbolTable.heap[col].parent = getSymbol(symbolTable, ctx, KindTable, NoString)


\* C27: for every catalog entry with a repeatable suffix and every raw index
\* at or past the start of the repeatable group, the active index returned by
\* getActiveIndex is a valid index into the labels built by
\* buildDisplayedParams for the same raw index, and the label at that index is
\* the name of the group parameter at position offset followed by the number
\* of the current instance (never the ellipsis, never a static parameter).
C27_ActiveIndexPointsAtCurrentInstance ==
  (HelpGiven /\ RawIndex >= GroupStart) =>
    LET labels == buildDisplayedParams(OpenParams, RawIndex)
        active == sigHelp[1].activeParameter
        instance == ((RawIndex - GroupStart) \div GroupStride) + 1
        off == (RawIndex - GroupStart) % GroupStride
    IN /\ active \in 0..(Len(labels) - 1)
       /\ labels[active + 1] = OpenParams[GroupStart + off + 1].name \o Decimal(instance)
       /\ labels[active + 1] # Ellipsis
       /\ active >= GroupStart

\* TOPN in its third instance, the cursor in the first parameter of the pair
C27_Witness ==
  /\ HelpGiven
  /\ sigText[LastOpen] = TkTopnOpen
  /\ RawIndex = GroupStart + 4
  /\ sigHelp[1].activeParameter = GroupStart + 1
  /\ buildDisplayedParams(OpenParams, RawIndex)[GroupStart + 2]
       = NmOrderByExpression \o Decimal(3)


\* C28: for every label produced by buildDisplayedParams other than the
\* ellipsis, getSourceParam called with the index of the label returns the
\* catalog parameter from whose name the label was built (a static label is
\* the name of its parameter, a group label the name of a repeatable
\* parameter followed by an instance number), for every stride and instance.
C28_SourceParamOfEveryLabel ==
  HelpGiven =>
    LET labels == buildDisplayedParams(OpenParams, RawIndex)
    IN \A index \in 0..(Len(labels) - 1) :
         labels[index + 1] # Ellipsis =>
           LET sourceParam == getSourceParam(OpenParams, index)
           IN IF index < GroupStart
              THEN /\ sourceParam = OpenParams[index + 1]
                   /\ labels[index + 1] = sourceParam.name
              ELSE /\ sourceParam.isRepeatable
                   /\ \E inst \in 1..(Len(sigText) + 1) :
                        labels[index + 1] = sourceParam.name \o Decimal(inst)


\* offset i of the text lies inside a line comment or a block comment
InsideComment(t, i) ==
  \E r \in Elems(findExclusionRanges(t)) :
    r.start <= i /\ i < r.end /\ Ch(t, r.start) \in {"/", "-"}

\* the text with every comma that lies inside a comment replaced by a space
WithoutCommentCommas(t) ==
  [k \in 1..Len(t) |-> IF t[k] = "," /\ InsideComment(t, k - 1) THEN " " ELSE t[k]]

\* C29: a comma inside a line comment or a block comment within the argument
\* list of a call does not contribute to the parameterCount of that call: the
\* count is the one of the same text with the commas of its comments removed.
C29_CommentCommasNotCounted ==
  SumExtracted =>
    Bind(WithoutCommentCommas(CallText), LAMBDA plain :
      Bind(parseFunctionCalls(plain, findExclusionRanges(plain)), LAMBDA calls :
        /\ Len(calls) >= 1
        /\ CallResult.functionCalls[1].parameterCount = calls[1].parameterCount))


\* the cache of the completion provider holds for u a parse of a text that
\* is no longer the text of u
Stale(u) ==
  /\ cache[u] # <<>>
  /\ cache[u][1].value # Scan(EmptySymbolTable, docs[u].text).result

\* C30: every change event on a DAX document is eventually followed by the
\* removal of the cache entry of that document, so that a completion request
\* made after the debounce delay never reuses a parse older than the change,
\* also when change events of several documents interleave within the
\* debounce window: a stale cache entry is eventually removed.
C30_ChangeLeadsToInvalidation ==
  \A u \in {"a.dax", "b.dax"} : Stale(u) ~> (cache[u] = <<>>)

=============================================================================
